---- MODULE Spec2Model ----
(***************************************************************************)
(* ChronoMind memory engine: fact extraction, the memory index (storage)   *)
(* and ranked retrieval.                                                   *)
(*                                                                         *)
(* Representation.                                                         *)
(*  - A JavaScript string is the sequence of its character codes.          *)
(*  - A number[] is a record [len, nz, nan, den2]: len is the array        *)
(*    length, nz maps the indices holding a non-zero number to an integer, *)
(*    the array entry at i is nz[i] / sqrt(den2), nan is the set of        *)
(*    indices whose entry is NaN in arithmetic, and every other entry is   *)
(*    0.  The weights 1/(i+1) of simpleEmbedding are kept exact by scaling *)
(*    them with Scale, a common multiple of every i+1 that occurs.         *)
(*  - A similarity score is a record [num, den2, nan]: NaN when nan is     *)
(*    set, the real num / sqrt(den2) otherwise; scores are compared        *)
(*    exactly.                                                             *)
(*  - An optional value (a field that may be undefined) is <<>> or <<v>>.  *)
(*  - A table is the sequence of its rows.  memoryFacts is kept in         *)
(*    ascending updatedAt order (the database clock is strictly            *)
(*    increasing: an insert stamps the latest time, an update re-stamps    *)
(*    the row), memorySummaries and memoryEmbeddings in insertion order.   *)
(***************************************************************************)
EXTENDS Integers, Sequences, FiniteSets, TLC

VARIABLES
  memoryFacts,       \* table memory_facts
  memorySummaries,   \* table memory_summaries
  memoryEmbeddings,  \* table memory_embeddings
  nextId,            \* the next row id gen_random_uuid() hands out
  pc,                \* position of the extract-and-store call
  messages,          \* extractMemoryFromConversation: the transcript
  oracle,            \* the outcome of the callLLM call of this extraction
  llmCalls,          \* how many times callLLM was invoked
  extracted,         \* what extractMemoryFromConversation returned
  storeUser,         \* storeExtractedMemory: userId
  cursor,            \* storeExtractedMemory: position of the for-of loop
  storedFacts,       \* storeExtractedMemory: storedFacts
  attempts,          \* the createMemoryFact calls made, with their outcome
  lastOp,            \* the memory-index request served last
  result,            \* what findRelevantMemories returned last
  call,              \* a call of one of the pure functions: name, arguments
  ret,               \* what that call returned
  now,               \* drive.ts: Date.now()
  connectionSettings,\* drive.ts: the module-level connectionSettings
  driveFolders,      \* Drive: ids of the non-trashed ChronoMindMemory folders
  driveCalls,        \* drive.ts: the calls in progress, one per caller
  providerKeys,      \* table provider_keys
  saveCalls,         \* saveProviderKey: the calls in progress, one per caller
  isLoading,         \* useAuthStore: isLoading
  firebaseUser,      \* useAuthStore: firebaseUser is set
  loginsPending,     \* onAuthChange callbacks waiting for /api/auth/login
  savedKeys,         \* server: providers the signed-in user has a key for
  saveKeyPending,    \* ProvidersPage: the saveKeyMutation in flight
  providers,         \* useProviderStore: providers (provider -> hasKey)
  activeProvider,    \* useProviderStore: activeProvider
  chatInput,         \* ChatPage: input
  isStreaming,       \* useChatStore: isStreaming
  chatMessages,      \* useChatStore: messages
  chatRequests,      \* POST /api/chat requests that have not settled
  mounted,           \* the React tree is still mounted
  lastSend           \* what the last handleSend did

vars == <<memoryFacts, memorySummaries, memoryEmbeddings, nextId, pc, messages,
          oracle, llmCalls, extracted, storeUser, cursor, storedFacts, attempts,
          lastOp, result, call, ret, now, connectionSettings, driveFolders,
          driveCalls, providerKeys, saveCalls, isLoading, firebaseUser,
          loginsPending, savedKeys, saveKeyPending, providers, activeProvider,
          chatInput, isStreaming, chatMessages, chatRequests, mounted, lastSend>>

storeVars == <<memoryFacts, memorySummaries, memoryEmbeddings, nextId>>
writeVars == <<pc, messages, oracle, llmCalls, extracted, storeUser, cursor,
               storedFacts, attempts>>
readVars  == <<lastOp, result>>
fnVars    == <<call, ret>>
driveVars == <<now, connectionSettings, driveFolders, driveCalls>>
keyVars   == <<providerKeys, saveCalls>>
clientVars == <<isLoading, firebaseUser, loginsPending, savedKeys,
                saveKeyPending, providers, activeProvider, chatInput,
                isStreaming,
                chatMessages, chatRequests, mounted, lastSend>>

None == <<>>
Some(v) == <<v>>

\* The callers whose calls may overlap in time.
Callers == {1, 2}

\* The providers of the model, of openai, claude, gemini, perplexity and
\* openrouter.
ProviderIds == {"openai", "claude"}

\* No call of drive.ts in progress.
NoDriveCall ==
  [fn |-> "none", at |-> "idle", via |-> "none", token |-> None, folder |-> 0]

\* drive.ts after module load: connectionSettings is undefined; the Drive
\* holds no ChronoMindMemory folder.
InitDriveVars ==
  /\ now = 0
  /\ connectionSettings = None
  /\ driveFolders = {}
  /\ driveCalls = [c \in Callers |-> NoDriveCall]

\* No saveProviderKey call in progress.
NoSaveCall ==
  [at |-> "idle", key |-> None, existing |-> None, last |-> "none"]

\* An empty provider_keys table.
InitKeyVars ==
  /\ providerKeys = {}
  /\ saveCalls = [c \in Callers |-> NoSaveCall]

NoSend == [outcome |-> "none", provider |-> ""]

\* The client after page load: the initial state of useAuthStore,
\* useChatStore and useProviderStore, nothing in local storage, an account
\* with no provider key.
InitClientVars ==
  /\ isLoading = TRUE
  /\ firebaseUser = FALSE
  /\ loginsPending = 0
  /\ savedKeys = {}
  /\ saveKeyPending = None
  /\ providers = [p \in ProviderIds |-> FALSE]
  /\ activeProvider = "openai"
  /\ chatInput = <<>>
  /\ isStreaming = FALSE
  /\ chatMessages = <<>>
  /\ chatRequests = 0
  /\ mounted = TRUE
  /\ lastSend = NoSend

Max(a, b) == IF a >= b THEN a ELSE b

RECURSIVE Gcd(_, _)
Gcd(a, b) == IF b = 0 THEN a ELSE Gcd(b, a % b)

Lcm(a, b) == (a * b) \div Gcd(a, b)

RECURSIVE LcmUpTo(_)
LcmUpTo(n) == IF n <= 1 THEN 1 ELSE Lcm(n, LcmUpTo(n - 1))

RECURSIVE SumOver(_, _)
SumOver(f, S) ==
  IF S = {} THEN 0
  ELSE LET x == CHOOSE y \in S : TRUE IN f[x] + SumOver(f, S \ {x})

(***************************************************************************)
(* Strings                                                                 *)
(***************************************************************************)

\* String.prototype.toLowerCase on one ASCII character code.
toLowerCase(c) == IF c >= 65 /\ c <= 90 THEN c + 32 ELSE c

\* The regular-expression class \w: [A-Za-z0-9_].
IsWordChar(c) ==
  \/ c >= 48 /\ c <= 57
  \/ c >= 65 /\ c <= 90
  \/ c = 95
  \/ c >= 97 /\ c <= 122

\* The regular-expression class \s (its ASCII members).
IsSpaceChar(c) == c \in {9, 10, 11, 12, 13, 32}

\* text.toLowerCase().replace(/[^\w\s]/g, "")
StripPunctuation(text) ==
  LET lower == [k \in 1..Len(text) |-> toLowerCase(text[k])]
  IN  SelectSeq(lower, LAMBDA c : IsWordChar(c) \/ IsSpaceChar(c))

\* s.split(/\s+/): the pieces between maximal runs of whitespace; a run at
\* the start or at the end leaves an empty piece there, "" gives [""].
RECURSIVE SplitFrom(_, _, _, _)
SplitFrom(s, k, cur, inRun) ==
  IF k > Len(s) THEN <<cur>>
  ELSE IF IsSpaceChar(s[k])
       THEN IF inRun THEN SplitFrom(s, k + 1, cur, TRUE)
            ELSE <<cur>> \o SplitFrom(s, k + 1, <<>>, TRUE)
       ELSE SplitFrom(s, k + 1, Append(cur, s[k]), FALSE)

SplitWhitespace(s) == SplitFrom(s, 1, <<>>, FALSE)

\* `${a}: ${b}`
KeyValueText(a, b) == a \o <<58, 32>> \o b

(***************************************************************************)
(* The texts of the model: "a", "b", "A!", "", " a", "b a"                 *)
(***************************************************************************)

Users == {"u1", "u2"}

Words == {<<97>>, <<98>>}

FactKeys == Words
FactValues == {<<97>>}
Contents == Words \cup {<<65, 33>>}
Queries == {<<>>, <<32, 97>>, <<98, 32, 97>>}

MaxTextLen == 3   \* characters in a text handed to simpleEmbedding directly

\* The characters of those texts: "a", "B", "!", " ".
TextChars == {97, 66, 33, 32}

EmbedTexts == UNION {[1..n -> TextChars] : n \in 0..MaxTextLen}

AllTexts ==
  Queries \cup Contents \cup EmbedTexts
  \cup {KeyValueText(k, v) : k \in FactKeys, v \in FactValues}

(***************************************************************************)
(* Embedder and similarity engine                                          *)
(***************************************************************************)

VectorLen == 256

TokenCount(text) == Len(SplitWhitespace(StripPunctuation(text)))

\* A common multiple of every token position i+1 of the texts embedded, so
\* that every weight 1/(i+1) is the integer Scale \div (i+1) over Scale.
Scale ==
  LcmUpTo(CHOOSE n \in {TokenCount(t) : t \in AllTexts} :
            \A t \in AllTexts : TokenCount(t) <= n)

\* The sum of the squares of the integer parts of a number[].
SquareSum(v) == SumOver([i \in DOMAIN v.nz |-> v.nz[i] * v.nz[i]], DOMAIN v.nz)

\* simpleEmbedding, lines 53-62: the accumulator before normalisation.  The
\* character at offset j of the word at position i adds 1/(i+1) to the
\* entry (charCode + i + j) % 256.
Accumulate(text) ==
  LET words == SplitWhitespace(StripPunctuation(text))
      hits  == {<<i, j>> \in (1..Len(words)) \X (1..Len(text)) : j <= Len(words[i])}
      idx(h) == (words[h[1]][h[2]] + (h[1] - 1) + (h[2] - 1)) % VectorLen
      touched == {idx(h) : h \in hits}
      add == [h \in hits |-> Scale \div h[1]]
  IN  [len  |-> VectorLen,
       nz   |-> [b \in touched |-> SumOver(add, {h \in hits : idx(h) = b})],
       nan  |-> {},
       den2 |-> Scale * Scale]

\* simpleEmbedding, lines 64-71: divide by the Euclidean norm when it is > 0.
simpleEmbedding_NoNormalise(text) == Accumulate(text)

simpleEmbedding(text) ==
  LET vector == Accumulate(text)
      norm2  == SquareSum(vector)
  IN  IF norm2 > 0
      THEN [len |-> vector.len, nz |-> vector.nz, nan |-> {}, den2 |-> norm2]
      ELSE [len |-> vector.len, nz |-> vector.nz, nan |-> {}, den2 |-> 1]

ZeroScore == [num |-> 0, den2 |-> 1, nan |-> FALSE]
NaNScore == [num |-> 0, den2 |-> 1, nan |-> TRUE]

cosineSimilarity_NoZeroGuard(a, b) ==
  IF a.len # b.len THEN ZeroScore
  ELSE LET both == DOMAIN a.nz \cap DOMAIN b.nz
           dotProduct == SumOver([i \in both |-> a.nz[i] * b.nz[i]], both)
           normA == SquareSum(a)
           normB == SquareSum(b)
       IN  IF a.nan # {} \/ b.nan # {} \/ normA = 0 \/ normB = 0 THEN NaNScore
           ELSE [num |-> dotProduct, den2 |-> normA * normB, nan |-> FALSE]

\* Lines 36-49.  A NaN entry makes the sums it enters NaN (NaN * 0 is NaN),
\* and NaN === 0 is false: the guard of line 48 returns 0 only for a norm
\* that is the number 0.
cosineSimilarity(a, b) ==
  IF a.len # b.len THEN ZeroScore
  ELSE LET both == DOMAIN a.nz \cap DOMAIN b.nz
           dotProduct == SumOver([i \in both |-> a.nz[i] * b.nz[i]], both)
           normA == SquareSum(a)
           normB == SquareSum(b)
       IN  IF (a.nan = {} /\ normA = 0) \/ (b.nan = {} /\ normB = 0)
           THEN ZeroScore
           ELSE IF a.nan # {} \/ b.nan # {} THEN NaNScore
           ELSE [num |-> dotProduct, den2 |-> normA * normB, nan |-> FALSE]

\* a/b < c/d for a, c >= 0 and b, d > 0, without multiplying.
RECURSIVE FracLess(_, _, _, _)
FracLess(a, b, c, d) ==
  LET qa == a \div b
      qc == c \div d
      ra == a % b
      rc == c % d
  IN  IF qa # qc THEN qa < qc
      ELSE IF rc = 0 THEN FALSE
      ELSE IF ra = 0 THEN TRUE
      ELSE FracLess(d, rc, b, ra)

\* s < t for two scores; false when one of them is NaN (t - s is NaN then,
\* which a sort takes for +0).
ScoreLess(s, t) ==
  IF s.nan \/ t.nan THEN FALSE
  ELSE IF s.num >= 0
  THEN t.num > 0 /\ FracLess(s.num * s.num, s.den2, t.num * t.num, t.den2)
  ELSE t.num >= 0 \/ FracLess(t.num * t.num, t.den2, s.num * s.num, s.den2)

RECURSIVE InsertByScore_Unstable(_, _)
InsertByScore_Unstable(sorted, x) ==
  IF sorted = <<>> THEN <<x>>
  ELSE IF ~ScoreLess(x.score, Head(sorted).score) THEN <<x>> \o sorted
  ELSE <<Head(sorted)>> \o InsertByScore_Unstable(Tail(sorted), x)

\* scored.sort((a, b) => b.score - a.score): a stable sort, descending.
RECURSIVE InsertByScore(_, _)
InsertByScore(sorted, x) ==
  IF sorted = <<>> THEN <<x>>
  ELSE IF ScoreLess(Head(sorted).score, x.score) THEN <<x>> \o sorted
  ELSE <<Head(sorted)>> \o InsertByScore(Tail(sorted), x)

RECURSIVE SortByScore(_)
SortByScore(scored) ==
  IF scored = <<>> THEN <<>>
  ELSE InsertByScore(SortByScore(SubSeq(scored, 1, Len(scored) - 1)),
                     scored[Len(scored)])

SliceTo_NoCut(seq, end) == seq

\* Array.prototype.slice(0, end) for an integer end.
SliceTo(seq, end) ==
  LET e == IF end < 0 THEN Max(Len(seq) + end, 0)
           ELSE IF end > Len(seq) THEN Len(seq) ELSE end
  IN  SubSeq(seq, 1, e)

\* Math.ceil(limit / 2) for an integer limit.
CeilHalf(limit) == (limit + 1) \div 2

(***************************************************************************)
(* Bounds                                                                  *)
(***************************************************************************)

MaxRespLen == 4   \* tokens in an oracle response
MaxMsgs == 1      \* messages in a transcript
MaxId == 2        \* rows the database ever creates
MaxLimit == 2     \* the largest limit passed to findRelevantMemories
MaxEmb == 3       \* rows of memory_embeddings when vectors are stored as given

(***************************************************************************)
(* Memory index: the tables and the DatabaseStorage queries                *)
(***************************************************************************)

MemoryCategory ==
  {"preferences", "goals", "constraints", "skills", "projects", "personal"}

RECURSIVE Reverse(_)
Reverse(seq) ==
  IF seq = <<>> THEN <<>> ELSE Append(Reverse(Tail(seq)), Head(seq))

Rows(table) == {table[k] : k \in 1..Len(table)}

\* The columns declared notNull() without a default must be given.
NotNullOk(fact) == fact.category # None /\ fact.key # None /\ fact.value # None

\* The row db.insert(memoryFacts).values(fact).returning() creates: the id
\* is generated, an absent confidence takes the column default 1.0 (100).
NewFactRow(fact, id) ==
  [id |-> id,
   userId |-> fact.userId,
   category |-> fact.category[1],
   key |-> fact.key[1],
   value |-> fact.value[1],
   confidence |-> IF fact.confidence = None THEN 100 ELSE fact.confidence[1],
   sourceMessageId |-> fact.sourceMessageId]

\* Whether createMemoryFact resolves: the database accepts the statement
\* (dbOk), the row satisfies its constraints, and an id is left.
InsertSucceeds(fact, dbOk) == dbOk /\ NotNullOk(fact) /\ nextId <= MaxId

getMemoryFacts_NoFilter(userId) == Reverse(memoryFacts)

getMemoryFacts(userId) ==
  Reverse(SelectSeq(memoryFacts, LAMBDA r : r.userId = userId))

getMemoryFactsByCategory(userId, category) ==
  Reverse(SelectSeq(memoryFacts,
                    LAMBDA r : r.userId = userId /\ r.category = category))

\* ORDER BY period_end DESC; rows with equal period_end stay in table order.
RECURSIVE InsertByPeriodEnd(_, _)
InsertByPeriodEnd(sorted, x) ==
  IF sorted = <<>> THEN <<x>>
  ELSE IF Head(sorted).periodEnd < x.periodEnd THEN <<x>> \o sorted
  ELSE <<Head(sorted)>> \o InsertByPeriodEnd(Tail(sorted), x)

RECURSIVE OrderByPeriodEndDesc(_)
OrderByPeriodEndDesc(rows) ==
  IF rows = <<>> THEN <<>>
  ELSE InsertByPeriodEnd(OrderByPeriodEndDesc(SubSeq(rows, 1, Len(rows) - 1)),
                         rows[Len(rows)])

getMemorySummaries(userId) ==
  OrderByPeriodEndDesc(SelectSeq(memorySummaries, LAMBDA r : r.userId = userId))

getMemoryEmbeddings(userId) ==
  SelectSeq(memoryEmbeddings, LAMBDA r : r.userId = userId)

getEmbeddingCount(userId) ==
  Len(SelectSeq(memoryEmbeddings, LAMBDA r : r.userId = userId))

(***************************************************************************)
(* Fact extractor                                                          *)
(*                                                                         *)
(* An oracle response is a sequence of tokens: LB and RB are the braces,   *)
(* TXT is any text without braces, FA and FB are the member                *)
(* "facts":[...] with the candidate lists PayloadA and PayloadB, FS is     *)
(* the member "facts":"ab" (a string instead of a list).                   *)
(***************************************************************************)

Tokens == {"LB", "RB", "TXT", "FS", "FA", "FB"}

Responses == UNION {[1..n -> Tokens] : n \in 0..MaxRespLen}

Message == [role |-> "user", content |-> <<97>>]

Transcripts == UNION {[1..n -> {Message}] : n \in 0..MaxMsgs}

OracleOutcomes ==
  {[throws |-> TRUE, text |-> <<>>]} \cup
  {[throws |-> FALSE, text |-> r] : r \in Responses}

Candidate(category, key, value, confidence) ==
  [category |-> category, key |-> key, value |-> value, confidence |-> confidence]

PayloadA ==
  << Candidate(Some("personal"), Some(<<97>>), Some(<<97>>), Some(90)),
     Candidate(Some("skills"), Some(<<97>>), Some(<<97>>), None) >>

PayloadB ==
  << Candidate(Some("hobbies"), Some(<<98>>), Some(<<97>>), Some(150)),
     Candidate(None, Some(<<98>>), Some(<<97>>), Some(50)),
     Candidate(Some("goals"), Some(<<98>>), Some(<<97>>), Some(-50)) >>

\* What for...of yields on the string "ab": two one-character strings,
\* whose category, key, value and confidence properties are undefined.
PayloadS ==
  << Candidate(None, None, None, None), Candidate(None, None, None, None) >>

EmptyExtracted == [facts |-> [tag |-> "array", items |-> <<>>]]

\* response.match(/\{[\s\S]*\}/): greedy, from the first "{" to the last
\* "}" behind it; None when there is no such pair.
JsonMatch(response) ==
  LET opens  == {k \in 1..Len(response) : response[k] = "LB"}
      closes == {k \in 1..Len(response) : response[k] = "RB"}
  IN  IF opens = {} \/ closes = {} THEN None
      ELSE LET first == CHOOSE k \in opens : \A m \in opens : k <= m
               last  == CHOOSE k \in closes : \A m \in closes : k >= m
           IN  IF first < last THEN Some(SubSeq(response, first, last)) ELSE None

\* Whether JSON.parse accepts the text: an object with no member or with
\* one member.
JsonParses(text) ==
  /\ Len(text) \in {2, 3}
  /\ text[1] = "LB"
  /\ text[Len(text)] = "RB"
  /\ Len(text) = 3 => text[2] \in {"FS", "FA", "FB"}

\* JSON.parse(text) as ExtractedMemory, for a text JsonParses accepts.
JsonParse(text) ==
  IF Len(text) = 2 THEN [facts |-> [tag |-> "undefined", items |-> <<>>]]
  ELSE IF text[2] = "FA" THEN [facts |-> [tag |-> "array", items |-> PayloadA]]
  ELSE IF text[2] = "FB" THEN [facts |-> [tag |-> "array", items |-> PayloadB]]
  ELSE [facts |-> [tag |-> "string", items |-> PayloadS]]

\* messages.map(m => `${m.role}: ${m.content}`): the lines of the prompt.
ConversationText(msgs) == [k \in 1..Len(msgs) |-> <<msgs[k].role, msgs[k].content>>]

\* extractMemoryFromConversation(msgs, userId, callLLM) when callLLM ends as
\* `out` says: whether the call raises, what it returns, and the prompts
\* callLLM was invoked with.
extractMemoryFromConversation_NoCatch(msgs, out) ==
  IF Len(msgs) = 0
  THEN [raised |-> FALSE, value |-> EmptyExtracted, prompts |-> <<>>]
  ELSE LET prompts == <<ConversationText(msgs)>>
           jsonMatch == JsonMatch(out.text)
       IN  IF out.throws \/ (jsonMatch # None /\ ~JsonParses(jsonMatch[1]))
           THEN [raised |-> TRUE, value |-> EmptyExtracted, prompts |-> prompts]
           ELSE IF jsonMatch = None
           THEN [raised |-> FALSE, value |-> EmptyExtracted, prompts |-> prompts]
           ELSE [raised |-> FALSE, value |-> JsonParse(jsonMatch[1]),
                 prompts |-> prompts]

extractMemoryFromConversation_NoShortCircuit(msgs, out) ==
  LET prompts == <<ConversationText(msgs)>>
      jsonMatch == JsonMatch(out.text)
  IN  IF out.throws \/ jsonMatch = None \/ ~JsonParses(jsonMatch[1])
      THEN [raised |-> FALSE, value |-> EmptyExtracted, prompts |-> prompts]
      ELSE [raised |-> FALSE, value |-> JsonParse(jsonMatch[1]), prompts |-> prompts]

extractMemoryFromConversation(msgs, out) ==
  IF Len(msgs) = 0
  THEN [raised |-> FALSE, value |-> EmptyExtracted, prompts |-> <<>>]
  ELSE LET prompts == <<ConversationText(msgs)>>
       IN  IF out.throws
           THEN [raised |-> FALSE, value |-> EmptyExtracted, prompts |-> prompts]
           ELSE LET jsonMatch == JsonMatch(out.text)
                IN  IF jsonMatch = None
                    THEN [raised |-> FALSE, value |-> EmptyExtracted,
                          prompts |-> prompts]
                    ELSE IF ~JsonParses(jsonMatch[1])
                    THEN [raised |-> FALSE, value |-> EmptyExtracted,
                          prompts |-> prompts]
                    ELSE [raised |-> FALSE, value |-> JsonParse(jsonMatch[1]),
                          prompts |-> prompts]

NoOracle == [called |-> FALSE, throws |-> FALSE, text |-> <<>>]

\* One call of extractMemoryFromConversation.  The oracle's outcome is
\* recorded only when the oracle was invoked.
Extract ==
  /\ pc = "idle"
  /\ \E msgs \in Transcripts, out \in OracleOutcomes :
       LET r == extractMemoryFromConversation(msgs, out)
       IN  /\ messages' = msgs
           /\ llmCalls' = llmCalls \o r.prompts
           /\ oracle' = IF r.prompts = <<>> THEN NoOracle
                        ELSE [called |-> TRUE, throws |-> out.throws, text |-> out.text]
           /\ extracted' = r.value
           /\ pc' = IF r.raised THEN "extractRaised" ELSE "extracted"
  /\ UNCHANGED <<storeUser, cursor, storedFacts, attempts>>
  /\ UNCHANGED storeVars
  /\ UNCHANGED readVars
  /\ UNCHANGED <<fnVars, driveVars, keyVars, clientVars>>

SourceMessageIds == {None, Some("m1")}

\* storeExtractedMemory, lines 110-112: the call starts; `for (... of
\* extracted.facts)` raises a TypeError when facts is not iterable.
StoreBegin ==
  /\ pc = "extracted"
  /\ \E userId \in Users, sourceMessageId \in SourceMessageIds :
       storeUser' = [userId |-> userId, sourceMessageId |-> sourceMessageId]
  /\ storedFacts' = <<>>
  /\ cursor' = 1
  /\ pc' = IF extracted.facts.tag = "undefined" THEN "storeRaised" ELSE "storing"
  /\ UNCHANGED <<messages, oracle, llmCalls, extracted, attempts>>
  /\ UNCHANGED storeVars
  /\ UNCHANGED readVars
  /\ UNCHANGED <<fnVars, driveVars, keyVars, clientVars>>

\* The factData object of lines 114-121.
FactData(fact) ==
  [userId |-> storeUser.userId,
   category |-> fact.category,
   key |-> fact.key,
   value |-> fact.value,
   confidence |-> fact.confidence,
   sourceMessageId |-> storeUser.sourceMessageId]

\* storeExtractedMemory, lines 112-128: one iteration of the loop.
StoreInsert_NoCatch(dbOk) ==
  /\ pc = "storing"
  /\ cursor <= Len(extracted.facts.items)
  /\ LET factData == FactData(extracted.facts.items[cursor])
         ok == InsertSucceeds(factData, dbOk)
         stored == NewFactRow(factData, nextId)
     IN  /\ attempts' = Append(attempts, [index |-> cursor, ok |-> ok,
                                         userId |-> storeUser.userId])
         /\ IF ok
            THEN /\ memoryFacts' = Append(memoryFacts, stored)
                 /\ nextId' = nextId + 1
                 /\ storedFacts' = Append(storedFacts, stored)
                 /\ cursor' = cursor + 1
                 /\ pc' = pc
            ELSE /\ UNCHANGED <<memoryFacts, nextId, storedFacts, cursor>>
                 /\ pc' = "storeRaised"
  /\ UNCHANGED <<messages, oracle, llmCalls, extracted, storeUser>>
  /\ UNCHANGED <<memorySummaries, memoryEmbeddings>>
  /\ UNCHANGED readVars
  /\ UNCHANGED <<fnVars, driveVars, keyVars, clientVars>>

StoreInsert_Upsert(dbOk) ==
  /\ pc = "storing"
  /\ cursor <= Len(extracted.facts.items)
  /\ LET factData == FactData(extracted.facts.items[cursor])
         ok == InsertSucceeds(factData, dbOk)
         stored == NewFactRow(factData, nextId)
         same(r) == r.userId = stored.userId /\ r.key = stored.key
     IN  /\ attempts' = Append(attempts, [index |-> cursor, ok |-> ok,
                                         userId |-> storeUser.userId])
         /\ IF ok
            THEN /\ memoryFacts' =
                      Append(SelectSeq(memoryFacts, LAMBDA r : ~same(r)), stored)
                 /\ nextId' = nextId + 1
                 /\ storedFacts' = Append(storedFacts, stored)
            ELSE UNCHANGED <<memoryFacts, nextId, storedFacts>>
  /\ cursor' = cursor + 1
  /\ UNCHANGED <<pc, messages, oracle, llmCalls, extracted, storeUser>>
  /\ UNCHANGED <<memorySummaries, memoryEmbeddings>>
  /\ UNCHANGED readVars
  /\ UNCHANGED <<fnVars, driveVars, keyVars, clientVars>>

StoreInsert(dbOk) ==
  /\ pc = "storing"
  /\ cursor <= Len(extracted.facts.items)
  /\ LET factData == FactData(extracted.facts.items[cursor])
         ok == InsertSucceeds(factData, dbOk)
         stored == NewFactRow(factData, nextId)
     IN  /\ attempts' = Append(attempts, [index |-> cursor, ok |-> ok,
                                         userId |-> storeUser.userId])
         /\ IF ok
            THEN /\ memoryFacts' = Append(memoryFacts, stored)
                 /\ nextId' = nextId + 1
                 /\ storedFacts' = Append(storedFacts, stored)
            ELSE UNCHANGED <<memoryFacts, nextId, storedFacts>>
  /\ cursor' = cursor + 1
  /\ UNCHANGED <<pc, messages, oracle, llmCalls, extracted, storeUser>>
  /\ UNCHANGED <<memorySummaries, memoryEmbeddings>>
  /\ UNCHANGED readVars
  /\ UNCHANGED <<fnVars, driveVars, keyVars, clientVars>>

\* storeExtractedMemory, line 130: the loop is over.
StoreReturn ==
  /\ pc = "storing"
  /\ cursor > Len(extracted.facts.items)
  /\ pc' = "returned"
  /\ UNCHANGED <<messages, oracle, llmCalls, extracted, storeUser, cursor,
                 storedFacts, attempts>>
  /\ UNCHANGED storeVars
  /\ UNCHANGED readVars
  /\ UNCHANGED <<fnVars, driveVars, keyVars, clientVars>>

NoResult ==
  [raised |-> FALSE, userId |-> "none", query |-> <<>>, limit |-> 0, failed |-> {},
   readFacts |-> <<>>, readSummaries |-> <<>>, readEmbeddings |-> <<>>,
   facts |-> <<>>, summaries |-> <<>>, embeddings |-> <<>>]

NoOp == [op |-> "none", requester |-> "none", id |-> 0]

\* No pure function is being called.
NoCall == [fn |-> "none"]
NoReturn == [done |-> FALSE, raised |-> FALSE, value |-> <<>>]

InitWrite ==
  /\ memoryFacts = <<>>
  /\ memorySummaries = <<>>
  /\ memoryEmbeddings = <<>>
  /\ nextId = 1
  /\ pc = "idle"
  /\ messages = <<>>
  /\ oracle = NoOracle
  /\ llmCalls = <<>>
  /\ extracted = EmptyExtracted
  /\ storeUser = [userId |-> "", sourceMessageId |-> None]
  /\ cursor = 1
  /\ storedFacts = <<>>
  /\ attempts = <<>>
  /\ lastOp = NoOp
  /\ result = NoResult
  /\ call = NoCall
  /\ ret = NoReturn
  /\ InitDriveVars
  /\ InitKeyVars
  /\ InitClientVars

NextWrite ==
  \/ Extract
  \/ StoreBegin
  \/ \E dbOk \in BOOLEAN : StoreInsert(dbOk)
  \/ StoreReturn

\* The write path: one extractAndStore on an empty store.
SpecWrite == InitWrite /\ [][NextWrite]_vars

(***************************************************************************)
(* The extraction with the oracle call as a step of its own                *)
(***************************************************************************)

\* extractMemoryFromConversation, lines 79-90: up to `await callLLM(prompt)`.
ExtractStart ==
  /\ pc = "idle"
  /\ \E msgs \in Transcripts :
       /\ messages' = msgs
       /\ IF Len(msgs) = 0
          THEN /\ pc' = "extracted"
               /\ UNCHANGED <<oracle, llmCalls>>
          ELSE /\ pc' = "awaiting"
               /\ llmCalls' = Append(llmCalls, ConversationText(msgs))
               /\ oracle' = [called |-> TRUE, throws |-> FALSE, text |-> <<>>]
  /\ extracted' = EmptyExtracted
  /\ UNCHANGED <<storeUser, cursor, storedFacts, attempts>>
  /\ UNCHANGED storeVars
  /\ UNCHANGED readVars
  /\ UNCHANGED <<fnVars, driveVars, keyVars, clientVars>>

\* The promise callLLM returned settles: it resolves with a text or rejects.
\* This is a step of the oracle, not of the program.
OracleSettles ==
  /\ pc = "awaiting"
  /\ \E out \in OracleOutcomes :
       oracle' = [called |-> TRUE, throws |-> out.throws, text |-> out.text]
  /\ pc' = "settled"
  /\ UNCHANGED <<messages, llmCalls, extracted, storeUser, cursor, storedFacts,
                 attempts>>
  /\ UNCHANGED storeVars
  /\ UNCHANGED readVars
  /\ UNCHANGED <<fnVars, driveVars, keyVars, clientVars>>

\* extractMemoryFromConversation, lines 90-102: the await is over.
ExtractResume ==
  /\ pc = "settled"
  /\ LET r == extractMemoryFromConversation(
                messages, [throws |-> oracle.throws, text |-> oracle.text])
     IN  /\ extracted' = r.value
         /\ pc' = IF r.raised THEN "extractRaised" ELSE "extracted"
  /\ UNCHANGED <<messages, oracle, llmCalls, storeUser, cursor, storedFacts,
                 attempts>>
  /\ UNCHANGED storeVars
  /\ UNCHANGED readVars
  /\ UNCHANGED <<fnVars, driveVars, keyVars, clientVars>>

InitOracle == InitWrite

NextOracle ==
  \/ ExtractStart
  \/ OracleSettles
  \/ ExtractResume

\* The program's own steps are taken when they can be; nothing obliges the
\* oracle to settle.
SpecOracle ==
  /\ InitOracle
  /\ [][NextOracle]_vars
  /\ WF_vars(ExtractStart)
  /\ WF_vars(ExtractResume)

MaxAttempts == 4   \* createMemoryFact calls over a run of storeExtractedMemory calls

\* The candidate lists handed to storeExtractedMemory.
StorePayloads == {<<>>, PayloadA, PayloadB}

\* storeExtractedMemory(userId, extracted, sourceMessageId) is called with
\* a list of candidates, the previous call having returned.
StoreCall ==
  /\ pc \in {"idle", "returned"}
  /\ \E userId \in Users, sourceMessageId \in SourceMessageIds,
        items \in StorePayloads :
       /\ Len(attempts) + Len(items) <= MaxAttempts
       /\ storeUser' = [userId |-> userId, sourceMessageId |-> sourceMessageId]
       /\ extracted' = [facts |-> [tag |-> "array", items |-> items]]
  /\ storedFacts' = <<>>
  /\ cursor' = 1
  /\ pc' = "storing"
  /\ UNCHANGED <<messages, oracle, llmCalls, attempts>>
  /\ UNCHANGED storeVars
  /\ UNCHANGED readVars
  /\ UNCHANGED <<fnVars, driveVars, keyVars, clientVars>>

InitAppend == InitWrite

NextAppend ==
  \/ StoreCall
  \/ \E dbOk \in BOOLEAN : StoreInsert(dbOk)
  \/ StoreReturn

\* A run of storeExtractedMemory calls, one after the other; `attempts`
\* keeps the createMemoryFact calls of all of them.
SpecAppend == InitAppend /\ [][NextAppend]_vars

(***************************************************************************)
(* Retriever                                                               *)
(***************************************************************************)

Sources == {"facts", "summaries", "embeddings"}

Items(scored) == [k \in 1..Len(scored) |-> scored[k].item]

\* lines 163-169
RankEmbeddings(embeddings, queryEmbedding, limit) ==
  LET scored == [k \in 1..Len(embeddings) |->
                   [item |-> embeddings[k],
                    score |-> cosineSimilarity(queryEmbedding,
                                               embeddings[k].embedding)]]
  IN  Items(SliceTo(SortByScore(scored), limit))

\* lines 171-177
RankFacts(facts, queryEmbedding, limit) ==
  LET scored == [k \in 1..Len(facts) |->
                   [item |-> facts[k],
                    score |-> cosineSimilarity(
                                queryEmbedding,
                                simpleEmbedding(KeyValueText(facts[k].key,
                                                             facts[k].value)))]]
  IN  Items(SliceTo(SortByScore(scored), limit))

\* lines 179-185
RankSummaries(summaries, queryEmbedding, limit) ==
  LET scored == [k \in 1..Len(summaries) |->
                   [item |-> summaries[k],
                    score |-> cosineSimilarity(queryEmbedding,
                                               simpleEmbedding(summaries[k].content))]]
  IN  Items(SliceTo(SortByScore(scored), CeilHalf(limit)))

\* findRelevantMemories once the three reads have resolved with the lists
\* facts, summaries and embeddings (lines 155, 163-191).
RankAll_FactsNeedEmbedding(facts, summaries, embeddings, query, limit) ==
  LET queryEmbedding == simpleEmbedding(query)
      embedded == SelectSeq(facts,
                    LAMBDA f : \E k \in 1..Len(embeddings) :
                                 embeddings[k].sourceId = Some(f.id))
  IN  [facts |-> RankFacts(embedded, queryEmbedding, limit),
       summaries |-> RankSummaries(summaries, queryEmbedding, limit),
       embeddings |-> RankEmbeddings(embeddings, queryEmbedding, limit)]

RankAll(facts, summaries, embeddings, query, limit) ==
  LET queryEmbedding == simpleEmbedding(query)
  IN  [facts |-> RankFacts(facts, queryEmbedding, limit),
       summaries |-> RankSummaries(summaries, queryEmbedding, limit),
       embeddings |-> RankEmbeddings(embeddings, queryEmbedding, limit)]

\* findRelevantMemories(userId, query, limit) when the reads named in
\* `failed` reject: Promise.all rejects as soon as one of its promises does,
\* and the rejection leaves the function.
findRelevantMemories(userId, query, limit, failed) ==
  IF failed # {}
  THEN [raised |-> TRUE, userId |-> userId, query |-> query, limit |-> limit,
        failed |-> failed,
        readFacts |-> <<>>, readSummaries |-> <<>>, readEmbeddings |-> <<>>,
        facts |-> <<>>, summaries |-> <<>>, embeddings |-> <<>>]
  ELSE LET facts == getMemoryFacts(userId)
           summaries == getMemorySummaries(userId)
           embeddings == getMemoryEmbeddings(userId)
           ranked == RankAll(facts, summaries, embeddings, query, limit)
       IN  [raised |-> FALSE, userId |-> userId, query |-> query, limit |-> limit,
            failed |-> failed,
            readFacts |-> facts, readSummaries |-> summaries,
            readEmbeddings |-> embeddings,
            facts |-> ranked.facts, summaries |-> ranked.summaries,
            embeddings |-> ranked.embeddings]

Limits == (-1)..MaxLimit

\* The server has answered its last request: nothing is being returned.
Answered == result = NoResult /\ lastOp = NoOp

Retrieve ==
  /\ Answered
  /\ \E userId \in Users, query \in Queries, limit \in Limits,
        failed \in SUBSET Sources :
       result' = findRelevantMemories(userId, query, limit, failed)
  /\ lastOp' = NoOp
  /\ UNCHANGED storeVars
  /\ UNCHANGED writeVars
  /\ UNCHANGED <<fnVars, driveVars, keyVars, clientVars>>

(***************************************************************************)
(* Memory index: the requests that write                                   *)
(***************************************************************************)

FactInputs ==
  { Candidate(Some("personal"), Some(<<97>>), Some(<<97>>), None),
    Candidate(Some("goals"), Some(<<98>>), Some(<<97>>), None) }

SummaryInputs ==
  { [content |-> <<97>>, periodEnd |-> 2], [content |-> <<98>>, periodEnd |-> 1] }

EmbeddingInputs ==
  { [content |-> <<65, 33>>, sourceType |-> "message", sourceId |-> None],
    [content |-> <<98>>, sourceType |-> "fact", sourceId |-> Some(1)] }

\* The updates an updateMemoryFact request carries (a Partial<MemoryFact>).
FactUpdates ==
  {[userId |-> Some(u), key |-> None] : u \in Users} \cup
  {[userId |-> None, key |-> Some(k)] : k \in FactKeys}

\* storage.createMemoryFact(fact)
CreateFact ==
  /\ Answered
  /\ nextId <= MaxId
  /\ \E userId \in Users, input \in FactInputs :
       LET fact == [userId |-> userId, category |-> input.category,
                    key |-> input.key, value |-> input.value,
                    confidence |-> input.confidence, sourceMessageId |-> None]
       IN  memoryFacts' = Append(memoryFacts, NewFactRow(fact, nextId))
  /\ nextId' = nextId + 1
  /\ lastOp' = NoOp
  /\ result' = NoResult
  /\ UNCHANGED <<memorySummaries, memoryEmbeddings>>
  /\ UNCHANGED writeVars
  /\ UNCHANGED <<fnVars, driveVars, keyVars, clientVars>>

\* storage.updateMemoryFact(id, updates), requested on behalf of `requester`:
\* UPDATE ... SET updates, updated_at = now WHERE id = id.
updateMemoryFact(id, updates) ==
  LET hit  == SelectSeq(memoryFacts, LAMBDA r : r.id = id)
      rest == SelectSeq(memoryFacts, LAMBDA r : r.id # id)
      set(r) == [r EXCEPT !.userId = IF updates.userId = None THEN @
                                      ELSE updates.userId[1],
                          !.key = IF updates.key = None THEN @ ELSE updates.key[1]]
  IN  rest \o [k \in 1..Len(hit) |-> set(hit[k])]

UpdateFact ==
  /\ Answered
  /\ \E requester \in Users, id \in 1..MaxId, updates \in FactUpdates :
       /\ memoryFacts' = updateMemoryFact(id, updates)
       /\ lastOp' = [op |-> "update", requester |-> requester, id |-> id]
  /\ result' = NoResult
  /\ UNCHANGED <<memorySummaries, memoryEmbeddings, nextId>>
  /\ UNCHANGED writeVars
  /\ UNCHANGED <<fnVars, driveVars, keyVars, clientVars>>

\* storage.deleteMemoryFact(id): DELETE ... WHERE id = id.
deleteMemoryFact(id) == SelectSeq(memoryFacts, LAMBDA r : r.id # id)

DeleteFact ==
  /\ Answered
  /\ \E requester \in Users, id \in 1..MaxId :
       /\ memoryFacts' = deleteMemoryFact(id)
       /\ lastOp' = [op |-> "delete", requester |-> requester, id |-> id]
  /\ result' = NoResult
  /\ UNCHANGED <<memorySummaries, memoryEmbeddings, nextId>>
  /\ UNCHANGED writeVars
  /\ UNCHANGED <<fnVars, driveVars, keyVars, clientVars>>

clearMemoryFacts_AllUsers(userId) == <<>>

\* storage.clearMemoryFacts(userId): DELETE ... WHERE user_id = userId.
clearMemoryFacts(userId) == SelectSeq(memoryFacts, LAMBDA r : r.userId # userId)

ClearFacts ==
  /\ Answered
  /\ \E userId \in Users :
       /\ memoryFacts' = clearMemoryFacts(userId)
       /\ lastOp' = [op |-> "clearFacts", requester |-> userId, id |-> 0]
  /\ result' = NoResult
  /\ UNCHANGED <<memorySummaries, memoryEmbeddings, nextId>>
  /\ UNCHANGED writeVars
  /\ UNCHANGED <<fnVars, driveVars, keyVars, clientVars>>

\* storage.createMemorySummary(summary)
CreateSummary ==
  /\ Answered
  /\ nextId <= MaxId
  /\ \E userId \in Users, input \in SummaryInputs :
       memorySummaries' =
         Append(memorySummaries,
                [id |-> nextId, userId |-> userId, content |-> input.content,
                 periodEnd |-> input.periodEnd])
  /\ nextId' = nextId + 1
  /\ lastOp' = NoOp
  /\ result' = NoResult
  /\ UNCHANGED <<memoryFacts, memoryEmbeddings>>
  /\ UNCHANGED writeVars
  /\ UNCHANGED <<fnVars, driveVars, keyVars, clientVars>>

clearMemorySummaries(userId) ==
  SelectSeq(memorySummaries, LAMBDA r : r.userId # userId)

ClearSummaries ==
  /\ Answered
  /\ \E userId \in Users :
       /\ memorySummaries' = clearMemorySummaries(userId)
       /\ lastOp' = [op |-> "clearSummaries", requester |-> userId, id |-> 0]
  /\ result' = NoResult
  /\ UNCHANGED <<memoryFacts, memoryEmbeddings, nextId>>
  /\ UNCHANGED writeVars
  /\ UNCHANGED <<fnVars, driveVars, keyVars, clientVars>>

\* createEmbeddingForMessage(userId, content, sourceType, sourceId)
CreateEmbedding ==
  /\ Answered
  /\ nextId <= MaxId
  /\ \E userId \in Users, input \in EmbeddingInputs :
       memoryEmbeddings' =
         Append(memoryEmbeddings,
                [id |-> nextId, userId |-> userId, content |-> input.content,
                 embedding |-> simpleEmbedding(input.content),
                 sourceType |-> input.sourceType, sourceId |-> input.sourceId])
  /\ nextId' = nextId + 1
  /\ lastOp' = NoOp
  /\ result' = NoResult
  /\ UNCHANGED <<memoryFacts, memorySummaries>>
  /\ UNCHANGED writeVars
  /\ UNCHANGED <<fnVars, driveVars, keyVars, clientVars>>

clearMemoryEmbeddings(userId) ==
  SelectSeq(memoryEmbeddings, LAMBDA r : r.userId # userId)

ClearEmbeddings ==
  /\ Answered
  /\ \E userId \in Users :
       /\ memoryEmbeddings' = clearMemoryEmbeddings(userId)
       /\ lastOp' = [op |-> "clearEmbeddings", requester |-> userId, id |-> 0]
  /\ result' = NoResult
  /\ UNCHANGED <<memoryFacts, memorySummaries, nextId>>
  /\ UNCHANGED writeVars
  /\ UNCHANGED <<fnVars, driveVars, keyVars, clientVars>>

\* The request's answer goes back to the caller.
Respond ==
  /\ ~Answered
  /\ result' = NoResult
  /\ lastOp' = NoOp
  /\ UNCHANGED storeVars
  /\ UNCHANGED writeVars
  /\ UNCHANGED <<fnVars, driveVars, keyVars, clientVars>>

InitRead == InitWrite

NextRead ==
  \/ CreateFact
  \/ UpdateFact
  \/ DeleteFact
  \/ ClearFacts
  \/ CreateSummary
  \/ ClearSummaries
  \/ CreateEmbedding
  \/ ClearEmbeddings
  \/ Retrieve
  \/ Respond

\* The memory index and the retriever, serving requests of several users.
SpecRead == InitRead /\ [][NextRead]_vars

(***************************************************************************)
(* Retrieval over embeddings stored as given                               *)
(*                                                                         *)
(* storage.createMemoryEmbedding stores whatever array it is handed (the   *)
(* column is jsonb), so a stored vector need not come from                 *)
(* simpleEmbedding.  A NaN score makes b.score - a.score NaN, which the    *)
(* sort takes for +0; when that leaves the comparator inconsistent the     *)
(* order Array.prototype.sort produces is implementation-defined, and the  *)
(* retrieval may return any of them.                                       *)
(***************************************************************************)

\* The two scores compare as equal under (a, b) => b.score - a.score.
ScoreEqual(s, t) == ~ScoreLess(s, t) /\ ~ScoreLess(t, s)

\* The comparator is a consistent comparison function for the items.
ConsistentComparator(scored) ==
  \A i, j, k \in 1..Len(scored) :
    /\ (ScoreEqual(scored[i].score, scored[j].score)
         /\ ScoreEqual(scored[j].score, scored[k].score))
        => ScoreEqual(scored[i].score, scored[k].score)
    /\ (ScoreLess(scored[i].score, scored[j].score)
         /\ ScoreLess(scored[j].score, scored[k].score))
        => ScoreLess(scored[i].score, scored[k].score)

SeqPermutations(seq) ==
  {[k \in 1..Len(seq) |-> seq[p[k]]] : p \in Permutations(1..Len(seq))}

\* What scored.sort((a, b) => b.score - a.score) may leave in the array.
SortOutcomes(scored) ==
  IF ConsistentComparator(scored) THEN {SortByScore(scored)}
  ELSE SeqPermutations(scored)

\* lines 163-169 and 190, for embeddings of any shape
RankEmbeddingsOutcomes(embeddings, queryEmbedding, limit) ==
  LET scored == [k \in 1..Len(embeddings) |->
                   [item |-> embeddings[k],
                    score |-> cosineSimilarity(queryEmbedding,
                                               embeddings[k].embedding)]]
  IN  {Items(SliceTo(sorted, limit)) : sorted \in SortOutcomes(scored)}

\* The values findRelevantMemories(userId, query, limit) may return.
findRelevantMemoriesOutcomes(userId, query, limit, failed) ==
  LET r == findRelevantMemories(userId, query, limit, failed)
  IN  IF r.raised THEN {r}
      ELSE {[r EXCEPT !.embeddings = e] :
              e \in RankEmbeddingsOutcomes(r.readEmbeddings,
                                           simpleEmbedding(query), limit)}

\* The rows handed to storage.createMemoryEmbedding: the embedding of the
\* content, an array of the wrong length, an array with a NaN entry.
RawEmbeddingInputs ==
  { [content |-> c, embedding |-> simpleEmbedding(c)] : c \in Words }
  \cup
  { [content |-> <<98>>,
     embedding |-> [len |-> 1, nz |-> [i \in {0} |-> 1], nan |-> {}, den2 |-> 1]],
    [content |-> <<98>>,
     embedding |-> [len |-> VectorLen, nz |-> [i \in {98} |-> 1], nan |-> {5},
                    den2 |-> 1]] }

\* storage.createMemoryEmbedding(embedding)
InsertEmbedding ==
  /\ Answered
  /\ nextId <= MaxEmb
  /\ \E userId \in Users, input \in RawEmbeddingInputs :
       memoryEmbeddings' =
         Append(memoryEmbeddings,
                [id |-> nextId, userId |-> userId, content |-> input.content,
                 embedding |-> input.embedding,
                 sourceType |-> "message", sourceId |-> None])
  /\ nextId' = nextId + 1
  /\ lastOp' = NoOp
  /\ result' = NoResult
  /\ UNCHANGED <<memoryFacts, memorySummaries>>
  /\ UNCHANGED writeVars
  /\ UNCHANGED <<fnVars, driveVars, keyVars, clientVars>>

RetrieveOutcome ==
  /\ Answered
  /\ \E userId \in Users, query \in Queries, limit \in Limits,
        failed \in SUBSET Sources :
       result' \in findRelevantMemoriesOutcomes(userId, query, limit, failed)
  /\ lastOp' = NoOp
  /\ UNCHANGED storeVars
  /\ UNCHANGED writeVars
  /\ UNCHANGED <<fnVars, driveVars, keyVars, clientVars>>

InitRank == InitWrite

NextRank ==
  \/ InsertEmbedding
  \/ ClearEmbeddings
  \/ RetrieveOutcome
  \/ Respond

\* Retrieval over a memory_embeddings table whose vectors are stored as given.
SpecRank == InitRank /\ [][NextRank]_vars

(***************************************************************************)
(* The embedder and the similarity function called on their own            *)
(***************************************************************************)

\* number[] values that no call of simpleEmbedding produces: the empty
\* array, arrays of length 1, and arrays of length 256 with a NaN entry.
OtherVectors ==
  { [len |-> 0, nz |-> <<>>, nan |-> {}, den2 |-> 1],
    [len |-> 1, nz |-> <<>>, nan |-> {}, den2 |-> 1],
    [len |-> 1, nz |-> [i \in {0} |-> 1], nan |-> {}, den2 |-> 1],
    [len |-> 1, nz |-> <<>>, nan |-> {0}, den2 |-> 1],
    [len |-> VectorLen, nz |-> <<>>, nan |-> {0}, den2 |-> 1],
    [len |-> VectorLen, nz |-> [i \in {97} |-> 1], nan |-> {5}, den2 |-> 1] }

Vectors == {simpleEmbedding(t) : t \in EmbedTexts} \cup OtherVectors

CosineCalls == {[fn |-> "cosineSimilarity", a |-> a, b |-> b] : a, b \in Vectors}

EmbedCalls == {[fn |-> "simpleEmbedding", text |-> t] : t \in EmbedTexts}

Returned(value) == [done |-> TRUE, raised |-> FALSE, value |-> value]

CallCosineSimilarity ==
  /\ call.fn = "cosineSimilarity"
  /\ ~ret.done
  /\ ret' = Returned(cosineSimilarity(call.a, call.b))
  /\ UNCHANGED <<call, storeVars, writeVars, readVars>>
  /\ UNCHANGED <<driveVars, keyVars, clientVars>>

CallSimpleEmbedding ==
  /\ call.fn = "simpleEmbedding"
  /\ ~ret.done
  /\ ret' = Returned(simpleEmbedding(call.text))
  /\ UNCHANGED <<call, storeVars, writeVars, readVars>>
  /\ UNCHANGED <<driveVars, keyVars, clientVars>>

InitVector ==
  /\ memoryFacts = <<>>
  /\ memorySummaries = <<>>
  /\ memoryEmbeddings = <<>>
  /\ nextId = 1
  /\ pc = "idle"
  /\ messages = <<>>
  /\ oracle = NoOracle
  /\ llmCalls = <<>>
  /\ extracted = EmptyExtracted
  /\ storeUser = [userId |-> "", sourceMessageId |-> None]
  /\ cursor = 1
  /\ storedFacts = <<>>
  /\ attempts = <<>>
  /\ lastOp = NoOp
  /\ result = NoResult
  /\ call \in CosineCalls \cup EmbedCalls
  /\ ret = NoReturn
  /\ InitDriveVars
  /\ InitKeyVars
  /\ InitClientVars

NextVector ==
  \/ CallCosineSimilarity
  \/ CallSimpleEmbedding

\* cosineSimilarity and simpleEmbedding applied to every input of the model.
SpecVector == InitVector /\ [][NextVector]_vars

(***************************************************************************)
(* Properties of the embedder and the similarity function (SpecVector)     *)
(***************************************************************************)

\* Every entry of the array is the number 0 (vacuously for the empty array).
IsAllZero(v) == v.nan = {} /\ \A i \in DOMAIN v.nz : v.nz[i] = 0

\* The Euclidean norm of the array is 1.
NormIsOne(v) == v.nan = {} /\ SquareSum(v) = v.den2

\* C11: cosineSimilarity(a, b) returns exactly 0 and does not raise
\* whenever a and b have different lengths or one of them is all-zero (the
\* empty vector included), whatever the other vector holds.
C11_DegenerateInputsScoreZero ==
  (/\ call.fn = "cosineSimilarity"
   /\ ret.done
   /\ \/ call.a.len # call.b.len
      \/ IsAllZero(call.a)
      \/ IsAllZero(call.b)) =>
    (~ret.raised /\ ret.value = ZeroScore)

C11_Witness ==
  /\ call.fn = "cosineSimilarity"
  /\ ret.done
  /\ call.a.len = call.b.len
  /\ call.a.len > 0
  /\ IsAllZero(call.a)
  /\ call.b.nan # {}
  /\ ret.value = ZeroScore

Spell ==
  ("goals" :> <<103, 111, 97, 108, 115>>) @@
  ("personal" :> <<112, 101, 114, 115, 111, 110, 97, 108>>) @@
  ("7" :> <<55>>) @@
  ("constructor" :> <<99, 111, 110, 115, 116, 114, 117, 99, 116, 111, 114>>) @@
  ("user" :> <<117, 115, 101, 114>>) @@
  ("assistant" :> <<97, 115, 115, 105, 115, 116, 97, 110, 116>>)

\* "# Memory Context\nThe following information has been remembered about
\* this user:\n\n" (line 240)
MemoryHeader ==
  << 35, 32, 77, 101, 109, 111, 114, 121, 32, 67, 111, 110, 116, 101, 120,
    116, 10, 84, 104, 101, 32, 102, 111, 108, 108, 111, 119, 105, 110, 103,
    32, 105, 110, 102, 111, 114, 109, 97, 116, 105, 111, 110, 32, 104, 97,
    115, 32, 98, 101, 101, 110, 32, 114, 101, 109, 101, 109, 98, 101, 114,
    101, 100, 32, 97, 98, 111, 117, 116, 32, 116, 104, 105, 115, 32, 117,
    115, 101, 114, 58, 10, 10 >>

\* "## User Information" (line 215)
UserInformationTitle ==
  << 35, 35, 32, 85, 115, 101, 114, 32, 73, 110, 102, 111, 114, 109, 97,
    116, 105, 111, 110 >>

\* "## Recent Context" (line 224)
RecentContextTitle ==
  << 35, 35, 32, 82, 101, 99, 101, 110, 116, 32, 67, 111, 110, 116, 101,
    120, 116 >>

\* "## Recent Conversation" (line 233)
RecentConversationTitle ==
  << 35, 35, 32, 82, 101, 99, 101, 110, 116, 32, 67, 111, 110, 118, 101,
    114, 115, 97, 116, 105, 111, 110 >>

SummariesShown == 3        \* slice(0, 3), line 220
MessagesShown == 6         \* slice(-6), line 229
ContentCharsShown == 200   \* content.slice(0, 200), line 230

\* String.prototype.toUpperCase on an ASCII string.
toUpperCase(s) ==
  [k \in 1..Len(s) |-> IF s[k] >= 97 /\ s[k] <= 122 THEN s[k] - 32 ELSE s[k]]

\* parts.join(sep)
RECURSIVE Join(_, _)
Join(parts, sep) ==
  IF parts = <<>> THEN <<>>
  ELSE IF Len(parts) = 1 THEN parts[1]
  ELSE parts[1] \o sep \o Join(Tail(parts), sep)

\* The elements of a set of integers in ascending order.
Ascending(S) ==
  [i \in 1..Cardinality(S) |->
     CHOOSE x \in S : Cardinality({y \in S : y < x}) = i - 1]

\* The property names an object literal {} inherits from Object.prototype:
\* reading one of them yields a function (Object.prototype for __proto__),
\* which is truthy and has no push method.
InheritedKeys ==
  {"constructor", "toString", "toLocaleString", "valueOf", "hasOwnProperty",
   "isPrototypeOf", "propertyIsEnumerable", "__proto__", "__defineGetter__",
   "__defineSetter__", "__lookupGetter__", "__lookupSetter__"}

\* The property name is an array index: a canonical decimal numeral (of at
\* most 9 digits here).
IsArrayIndex(name) ==
  /\ Len(name) \in 1..9
  /\ \A k \in 1..Len(name) : name[k] >= 48 /\ name[k] <= 57
  /\ Len(name) = 1 \/ name[1] # 48

RECURSIVE NumeralValue(_)
NumeralValue(name) ==
  IF name = <<>> THEN 0
  ELSE 10 * NumeralValue(SubSeq(name, 1, Len(name) - 1)) + (name[Len(name)] - 48)

\* Lines 202-206: whether the reduce raises.  acc[fact.category] of an
\* inherited name is truthy, so no array is created and .push is not a
\* function: a TypeError.
GroupingRaises(facts) == \E k \in 1..Len(facts) : facts[k].category \in InheritedKeys

\* The own properties of factsByCategory in creation order: the categories
\* in the order of their first occurrence.
CreatedKeys(facts) ==
  LET first == {k \in 1..Len(facts) :
                  \A j \in 1..(k - 1) : facts[j].category # facts[k].category}
      order == Ascending(first)
  IN  [i \in 1..Len(order) |-> facts[order[i]].category]

\* Object.entries(factsByCategory), line 208: array-index names first, in
\* ascending numeric order, then the other names in creation order.
EntryKeys(facts) ==
  LET created == CreatedKeys(facts)
      indexKeys == {created[i] : i \in {j \in 1..Len(created) :
                                         IsArrayIndex(Spell[created[j]])}}
      values == Ascending({NumeralValue(Spell[c]) : c \in indexKeys})
  IN  [i \in 1..Len(values) |->
         CHOOSE c \in indexKeys : NumeralValue(Spell[c]) = values[i]]
      \o SelectSeq(created, LAMBDA c : ~IsArrayIndex(Spell[c]))

\* `- ${f.key}: ${f.value}`
FactLine(f) == <<45, 32>> \o f.key \o <<58, 32>> \o f.value

\* Lines 209-212: one group.
CategoryGroup(facts, category) ==
  LET categoryFacts == SelectSeq(facts, LAMBDA f : f.category = category)
      items == Join([k \in 1..Len(categoryFacts) |-> FactLine(categoryFacts[k])],
                    <<10>>)
  IN  <<91>> \o toUpperCase(Spell[category]) \o <<93, 10>> \o items

\* Lines 208-215.
FactsSection(facts) ==
  LET keys == EntryKeys(facts)
  IN  UserInformationTitle \o <<10>>
      \o Join([i \in 1..Len(keys) |-> CategoryGroup(facts, keys[i])], <<10, 10>>)

SummarySection_NoSlice(summaries) ==
  RecentContextTitle \o <<10>>
  \o Join([k \in 1..Len(summaries) |-> <<45, 32>> \o summaries[k].content], <<10>>)

\* Lines 219-224.
SummarySection(summaries) ==
  LET shown == SliceTo(summaries, SummariesShown)
  IN  RecentContextTitle \o <<10>>
      \o Join([k \in 1..Len(shown) |-> <<45, 32>> \o shown[k].content], <<10>>)

\* Array.prototype.slice(-n) for n > 0.
SliceLast(seq, n) == SubSeq(seq, Max(Len(seq) - n, 0) + 1, Len(seq))

\* `${m.role}: ${m.content.slice(0, 200)}${m.content.length > 200 ? "..." : ""}`
MessageLine(m) ==
  Spell[m.role] \o <<58, 32>> \o SliceTo(m.content, ContentCharsShown)
  \o (IF Len(m.content) > ContentCharsShown THEN <<46, 46, 46>> ELSE <<>>)

RecentSection_FirstMessages(recentMessages) ==
  LET shown == SliceTo(recentMessages, MessagesShown)
  IN  RecentConversationTitle \o <<10>>
      \o Join([k \in 1..Len(shown) |-> MessageLine(shown[k])], <<10>>)

\* Lines 228-233.
RecentSection(recentMessages) ==
  LET shown == SliceLast(recentMessages, MessagesShown)
  IN  RecentConversationTitle \o <<10>>
      \o Join([k \in 1..Len(shown) |-> MessageLine(shown[k])], <<10>>)

Sections_ContextFirst(facts, summaries, recentMessages) ==
  (IF Len(summaries) > 0 THEN <<SummarySection(summaries)>> ELSE <<>>)
  \o (IF Len(facts) > 0 THEN <<FactsSection(facts)>> ELSE <<>>)
  \o (IF Len(recentMessages) > 0 THEN <<RecentSection(recentMessages)>> ELSE <<>>)

\* The sections pushed by lines 201-234, in the order they are pushed.
Sections(facts, summaries, recentMessages) ==
  (IF Len(facts) > 0 THEN <<FactsSection(facts)>> ELSE <<>>)
  \o (IF Len(summaries) > 0 THEN <<SummarySection(summaries)>> ELSE <<>>)
  \o (IF Len(recentMessages) > 0 THEN <<RecentSection(recentMessages)>> ELSE <<>>)

Block_AlwaysHeader(sections) == MemoryHeader \o Join(sections, <<10, 10>>)

\* Lines 236-240.
Block(sections) ==
  IF Len(sections) = 0 THEN <<>>
  ELSE MemoryHeader \o Join(sections, <<10, 10>>)

\* buildContextFromMemory(facts, summaries, recentMessages): whether it
\* raises, and the string it returns.
buildContextFromMemory(facts, summaries, recentMessages) ==
  IF Len(facts) > 0 /\ GroupingRaises(facts)
  THEN [raised |-> TRUE, value |-> <<>>]
  ELSE [raised |-> FALSE,
        value |-> Block(Sections(facts, summaries, recentMessages))]

MaxCtxFacts == 3       \* facts handed to buildContextFromMemory
MaxCtxSummaries == 4   \* summaries handed to buildContextFromMemory
MaxCtxMsgs == 7        \* recent messages handed to buildContextFromMemory

\* The categories of the facts handed over: two known ones, a numeral, and
\* a name every object inherits.
CtxCategories == {"goals", "personal", "7", "constructor"}

CtxFacts == {[category |-> c, key |-> k, value |-> <<97>>] :
               c \in CtxCategories, k \in FactKeys}

CtxSummaries == {[content |-> c] : c \in Words}

\* Messages of 1, 200 and 201 characters.
CtxMessages ==
  { [role |-> "user", content |-> <<97>>],
    [role |-> "assistant", content |-> [k \in 1..ContentCharsShown |-> 120]],
    [role |-> "user",
     content |-> [k \in 1..(ContentCharsShown + 1) |->
                    IF k <= ContentCharsShown THEN 120 ELSE 121]] }

ListsOf(S, n) == UNION {[1..k -> S] : k \in 0..n}

OneFact == <<[category |-> "goals", key |-> <<97>>, value |-> <<97>>]>>
OneSummary == <<[content |-> <<97>>]>>
OneMessage == <<[role |-> "user", content |-> <<97>>]>>

\* The calls of the model: one of the three lists ranges over all lists up
\* to its bound while each of the other two is empty or a single element.
BuildCalls ==
  {[fn |-> "buildContextFromMemory", facts |-> f, summaries |-> s,
    recentMessages |-> m] :
     f \in ListsOf(CtxFacts, MaxCtxFacts), s \in {<<>>, OneSummary},
     m \in {<<>>, OneMessage}}
  \cup
  {[fn |-> "buildContextFromMemory", facts |-> f, summaries |-> s,
    recentMessages |-> m] :
     f \in {<<>>, OneFact}, s \in ListsOf(CtxSummaries, MaxCtxSummaries),
     m \in {<<>>, OneMessage}}
  \cup
  {[fn |-> "buildContextFromMemory", facts |-> f, summaries |-> s,
    recentMessages |-> m] :
     f \in {<<>>, OneFact}, s \in {<<>>, OneSummary},
     m \in ListsOf(CtxMessages, MaxCtxMsgs)}

CallBuildContext ==
  /\ call.fn = "buildContextFromMemory"
  /\ ~ret.done
  /\ LET r == buildContextFromMemory(call.facts, call.summaries,
                                     call.recentMessages)
     IN  ret' = [done |-> TRUE, raised |-> r.raised, value |-> r.value]
  /\ UNCHANGED <<call, storeVars, writeVars, readVars>>
  /\ UNCHANGED <<driveVars, keyVars, clientVars>>

InitContext ==
  /\ memoryFacts = <<>>
  /\ memorySummaries = <<>>
  /\ memoryEmbeddings = <<>>
  /\ nextId = 1
  /\ pc = "idle"
  /\ messages = <<>>
  /\ oracle = NoOracle
  /\ llmCalls = <<>>
  /\ extracted = EmptyExtracted
  /\ storeUser = [userId |-> "", sourceMessageId |-> None]
  /\ cursor = 1
  /\ storedFacts = <<>>
  /\ attempts = <<>>
  /\ lastOp = NoOp
  /\ result = NoResult
  /\ call \in BuildCalls
  /\ ret = NoReturn
  /\ InitDriveVars
  /\ InitKeyVars
  /\ InitClientVars

NextContext == CallBuildContext

\* buildContextFromMemory applied to every input of the model.
SpecContext == InitContext /\ [][NextContext]_vars

(***************************************************************************)
(* Properties of retrieval over embeddings stored as given (SpecRank)      *)
(***************************************************************************)

\* The stored vector cannot be compared with the query vector q.
Malformed(v, q) == v.len # q.len \/ v.nan # {}

\* The position of the row in the list.
PositionIn(row, rows) == CHOOSE k \in 1..Len(rows) : rows[k] = row

\* The ranking of the embeddings read when every malformed one scores 0.
RankedAsIfZero(embeddings, q) ==
  Items(SortByScore([k \in 1..Len(embeddings) |->
                       [item |-> embeddings[k],
                        score |-> IF Malformed(embeddings[k].embedding, q)
                                  THEN ZeroScore
                                  ELSE cosineSimilarity(q, embeddings[k].embedding)]]))

\* C12: when a stored embedding is malformed (wrong length, or a NaN entry)
\* and the reads succeed, findRelevantMemories does not raise, and the
\* well-formed embeddings it returns are in the order they have in the
\* ranking where every malformed embedding scores 0.
C12_MalformedVectorScoresZero ==
  LET q == simpleEmbedding(result.query)
      expected == RankedAsIfZero(result.readEmbeddings, q)
      got == result.embeddings
  IN  (/\ result.userId \in Users
       /\ result.failed = {}
       /\ \E r \in Rows(result.readEmbeddings) : Malformed(r.embedding, q)) =>
        /\ ~result.raised
        /\ \A i, j \in 1..Len(got) :
             (/\ i < j
              /\ ~Malformed(got[i].embedding, q)
              /\ ~Malformed(got[j].embedding, q)) =>
               PositionIn(got[i], expected) < PositionIn(got[j], expected)

(***************************************************************************)
(* Properties of the context assembler (SpecContext)                       *)
(***************************************************************************)

\* A call of buildContextFromMemory has returned a string.
Built == call.fn = "buildContextFromMemory" /\ ret.done /\ ~ret.raised

\* The lines of a text: the pieces between its line feeds.
Lines(text) ==
  LET breaks == Ascending({0, Len(text) + 1}
                          \cup {k \in 1..Len(text) : text[k] = 10})
  IN  [i \in 1..(Len(breaks) - 1) |->
         SubSeq(text, breaks[i] + 1, breaks[i + 1] - 1)]

SectionTitles == {UserInformationTitle, RecentContextTitle, RecentConversationTitle}

\* The numbers of the lines that are the given section title.
TitleAt(lines, title) == {i \in 1..Len(lines) : lines[i] = title}

\* The non-blank lines of the section with the given title: those behind
\* its title line, up to the next section title or the end of the block.
SectionBody(lines, title) ==
  LET at == CHOOSE i \in TitleAt(lines, title) :
              \A j \in TitleAt(lines, title) : i <= j
      later == {i \in (at + 1)..Len(lines) : lines[i] \in SectionTitles}
                 \cup {Len(lines) + 1}
      end == CHOOSE i \in later : \A j \in later : i <= j
  IN  SelectSeq(SubSeq(lines, at + 1, end - 1), LAMBDA l : l # <<>>)

RECURSIVE Flatten(_)
Flatten(seqs) == IF seqs = <<>> THEN <<>> ELSE Head(seqs) \o Flatten(Tail(seqs))

C16_HeaderThenSectionsInOrder ==
  (Built /\ ret.value # <<>>) =>
    LET lines == Lines(ret.value)
        u == TitleAt(lines, UserInformationTitle)
        c == TitleAt(lines, RecentContextTitle)
        m == TitleAt(lines, RecentConversationTitle)
    IN  /\ Len(ret.value) > Len(MemoryHeader)
        /\ SubSeq(ret.value, 1, Len(MemoryHeader)) = MemoryHeader
        /\ Cardinality(u) = (IF call.facts = <<>> THEN 0 ELSE 1)
        /\ Cardinality(c) = (IF call.summaries = <<>> THEN 0 ELSE 1)
        /\ Cardinality(m) = (IF call.recentMessages = <<>> THEN 0 ELSE 1)
        /\ \A i \in u, j \in c \cup m : i < j
        /\ \A i \in c, j \in m : i < j
        /\ \A i \in u \cup c \cup m :
             (\A j \in u \cup c \cup m : i <= j) =>
               i = Len(Lines(MemoryHeader))

C16_Witness ==
  /\ Built
  /\ Len(call.facts) > 1 /\ call.summaries # <<>> /\ call.recentMessages # <<>>
  /\ TitleAt(Lines(ret.value), RecentConversationTitle) # {}

\* C17: for every non-empty facts list, whatever its categories,
\* buildContextFromMemory does not raise, and the User Information section
\* is, for each category in the order of its first occurrence in the input,
\* the header [CATEGORY] (uppercased) followed by one "- key: value" line
\* per fact of that category, in input order; no other header, no other
\* line.
C17_FactsGroupedByCategory ==
  (call.fn = "buildContextFromMemory" /\ ret.done /\ call.facts # <<>>) =>
    /\ ~ret.raised
    /\ LET categories == CreatedKeys(call.facts)
           group(category) ==
             <<(<<91>> \o toUpperCase(Spell[category]) \o <<93>>)>>
             \o [k \in 1..Len(SelectSeq(call.facts,
                                        LAMBDA f : f.category = category)) |->
                   <<45, 32>>
                   \o SelectSeq(call.facts, LAMBDA f : f.category = category)[k].key
                   \o <<58, 32>>
                   \o SelectSeq(call.facts, LAMBDA f : f.category = category)[k].value]
       IN  SectionBody(Lines(ret.value), UserInformationTitle) =
             Flatten([i \in 1..Len(categories) |-> group(categories[i])])

\* C18: the Recent Conversation section is exactly the last min(6, n) of
\* the n recent messages, in input order, one "role: content" line each,
\* the content unchanged when it has at most 200 characters and cut to its
\* first 200 characters followed by "..." otherwise.
C18_LastSixMessagesTruncated ==
  (Built /\ call.recentMessages # <<>>) =>
    LET n == Len(call.recentMessages)
        shown == IF n < 6 THEN n ELSE 6
        content(m) == IF Len(m.content) <= 200 THEN m.content
                      ELSE SubSeq(m.content, 1, 200) \o <<46, 46, 46>>
    IN  SectionBody(Lines(ret.value), RecentConversationTitle) =
          [i \in 1..shown |->
             Spell[call.recentMessages[n - shown + i].role] \o <<58, 32>>
             \o content(call.recentMessages[n - shown + i])]

C18_Witness ==
  /\ Built
  /\ Len(call.recentMessages) = 7
  /\ Len(call.recentMessages[1].content) = 1
  /\ Len(call.recentMessages[2].content) = 200
  /\ Len(call.recentMessages[3].content) = 201
  /\ Len(call.recentMessages[7].content) = 1
  /\ Len(SectionBody(Lines(ret.value), RecentConversationTitle)) = 6

\* C19: the Recent Context section is exactly one "- content" bullet for
\* each of the first min(3, n) of the n summaries, in the order given;
\* later summaries do not appear.
C19_FirstThreeSummaries ==
  (Built /\ call.summaries # <<>>) =>
    LET n == Len(call.summaries)
        shown == IF n < 3 THEN n ELSE 3
    IN  SectionBody(Lines(ret.value), RecentContextTitle) =
          [i \in 1..shown |-> <<45, 32>> \o call.summaries[i].content]

C19_Witness ==
  /\ Built
  /\ Len(call.summaries) = 4
  /\ call.summaries[4].content # call.summaries[3].content
  /\ Len(SectionBody(Lines(ret.value), RecentContextTitle)) = 3

\* The whitespace-separated tokens of a text: its maximal runs of
\* characters that are not whitespace.
TokensOf(s) == SelectSeq(SplitWhitespace(s), LAMBDA w : w # <<>>)

\* The reference accumulator of C25: token i (0-based) adds 1/(i+1) to the
\* bucket (charCode + i + j) mod 256 for each of its characters, j being
\* the character's offset.  Bucket b holds ReferenceAccumulator(text)[b]
\* over Scale.
ReferenceAccumulator(text) ==
  LET tokens == TokensOf(StripPunctuation(text))
  IN  [b \in 0..255 |->
         SumOver([h \in {x \in (1..Len(tokens)) \X (1..Len(text)) :
                           /\ x[2] <= Len(tokens[x[1]])
                           /\ (tokens[x[1]][x[2]] + (x[1] - 1) + (x[2] - 1)) % 256 = b}
                   |-> Scale \div h[1]],
                 {x \in (1..Len(tokens)) \X (1..Len(text)) :
                    /\ x[2] <= Len(tokens[x[1]])
                    /\ (tokens[x[1]][x[2]] + (x[1] - 1) + (x[2] - 1)) % 256 = b})]

\* C25: for every input string, leading, trailing and repeated whitespace
\* included, the accumulator simpleEmbedding builds before normalisation is
\* the reference accumulator over the whitespace-separated tokens.
C25_AccumulatorMatchesReference ==
  (call.fn = "simpleEmbedding" /\ ret.done) =>
    LET vector == Accumulate(call.text)
        reference == ReferenceAccumulator(call.text)
    IN  /\ vector.len = 256
        /\ vector.den2 = Scale * Scale
        /\ \A b \in 0..255 :
             reference[b] = (IF b \in DOMAIN vector.nz THEN vector.nz[b] ELSE 0)

(***************************************************************************)
(* Properties of the write path (SpecWrite)                                *)
(***************************************************************************)

\* The oracle was invoked and its outcome cannot be decoded: the call threw,
\* the text has no {...} region, or the region is not JSON.
Undecodable ==
  /\ oracle.called
  /\ \/ oracle.throws
     \/ JsonMatch(oracle.text) = None
     \/ ~JsonParses(JsonMatch(oracle.text)[1])

\* C1: for a non-empty transcript and an oracle outcome that cannot be
\* decoded (the call throws, no {...} region, a malformed region),
\* extractMemoryFromConversation returns the empty fact list and does not
\* raise.
C1_UndecodableGivesNoFacts ==
  /\ pc # "idle" /\ Len(messages) > 0 => oracle.called
  /\ (pc # "idle" /\ Len(messages) > 0 /\ Undecodable) =>
       (pc # "extractRaised" /\ extracted = EmptyExtracted)

C1_Witness ==
  /\ pc = "extracted"
  /\ Len(messages) > 0
  /\ ~oracle.throws
  /\ JsonMatch(oracle.text) # None
  /\ ~JsonParses(JsonMatch(oracle.text)[1])
  /\ extracted = EmptyExtracted

\* C2: on an empty transcript extractMemoryFromConversation returns
\* {facts: []} and callLLM is not invoked.
C2_EmptyTranscriptSkipsOracle ==
  (pc # "idle" /\ Len(messages) = 0) =>
    (pc # "extractRaised" /\ extracted = EmptyExtracted /\ llmCalls = <<>>)

C2_Witness == pc = "extracted" /\ Len(messages) = 0 /\ llmCalls = <<>>

\* The createMemoryFact calls that resolved, in the order they were made.
OkAttempts == SelectSeq(attempts, LAMBDA a : a.ok)

\* The row was created from the candidate for the user of the call.
RowOfCandidate(row, fact) ==
  /\ row.userId = storeUser.userId
  /\ fact.category = Some(row.category)
  /\ fact.key = Some(row.key)
  /\ fact.value = Some(row.value)
  /\ row.sourceMessageId = storeUser.sourceMessageId

\* C3: in storeExtractedMemory a failed insert does not stop the loop:
\* every candidate is attempted exactly once, in order, and the list
\* returned is exactly the rows whose insert succeeded, in candidate order.
C3_EveryCandidateAttempted ==
  /\ pc = "storing" =>
       /\ Len(attempts) = cursor - 1
       /\ \A k \in 1..Len(attempts) : attempts[k].index = k
  /\ pc = "storeRaised" => attempts = <<>>
  /\ pc = "returned" =>
       /\ Len(attempts) = Len(extracted.facts.items)
       /\ \A k \in 1..Len(attempts) : attempts[k].index = k
       /\ Len(storedFacts) = Len(OkAttempts)
       /\ storedFacts = memoryFacts
       /\ \A j \in 1..Len(storedFacts) :
            RowOfCandidate(storedFacts[j],
                           extracted.facts.items[OkAttempts[j].index])

C3_Witness ==
  /\ pc = "returned"
  /\ \E k, m \in 1..Len(attempts) : k < m /\ ~attempts[k].ok /\ attempts[m].ok

Clamp(c) == IF c < 0 THEN 0 ELSE IF c > 100 THEN 100 ELSE c

\* C4: every Fact row the extraction write path stores has a confidence in
\* [0,1] (0..100 here): a candidate confidence below 0 is stored as 0, one
\* above 1 as 1.
C4_StoredConfidenceClamped ==
  /\ \A r \in Rows(memoryFacts) : r.confidence >= 0 /\ r.confidence <= 100
  /\ \A j \in 1..Len(storedFacts) :
       LET c == extracted.facts.items[OkAttempts[j].index].confidence
       IN  c # None => storedFacts[j].confidence = Clamp(c[1])

\* C5: every stored Fact's category is one of the six MemoryCategory values.
C5_StoredCategoryKnown ==
  \A r \in Rows(memoryFacts) : r.category \in MemoryCategory

\* C13: for every oracle response, also one whose {...} region is JSON
\* without a `facts` array (no such member, or a value that is not a list),
\* extractMemoryFromConversation followed by storeExtractedMemory completes
\* without raising and stores no fact for that response.
C13_NoFactsArrayStoresNothing ==
  /\ pc \notin {"extractRaised", "storeRaised"}
  /\ (pc = "returned" /\ extracted.facts.tag # "array") =>
       (memoryFacts = <<>> /\ storedFacts = <<>>)

\* The position of the brace that closes the one opened before position k,
\* `depth` braces being open there; 0 when there is none.
RECURSIVE CloseOf(_, _, _)
CloseOf(response, k, depth) ==
  IF k > Len(response) THEN 0
  ELSE IF response[k] = "LB" THEN CloseOf(response, k + 1, depth + 1)
  ELSE IF response[k] = "RB"
       THEN IF depth = 1 THEN k ELSE CloseOf(response, k + 1, depth - 1)
  ELSE CloseOf(response, k + 1, depth)

\* The first balanced {...} region of the response: where it starts and ends.
FirstBalancedRegion(response) ==
  LET starts == {k \in 1..Len(response) :
                   response[k] = "LB" /\ CloseOf(response, k + 1, 1) # 0}
  IN  IF starts = {} THEN None
      ELSE LET first == CHOOSE k \in starts : \A m \in starts : k <= m
           IN  Some([from |-> first, to |-> CloseOf(response, first + 1, 1)])

\* C14: when the first balanced {...} region of the response is a
\* well-formed {facts:[...]} object and the text behind it holds a brace,
\* extraction returns the facts of that object.
C14_FirstBalancedRegionDecoded ==
  LET region == FirstBalancedRegion(oracle.text)
      text == SubSeq(oracle.text, region[1].from, region[1].to)
  IN  (/\ pc # "idle"
       /\ oracle.called
       /\ ~oracle.throws
       /\ region # None
       /\ JsonParses(text)
       /\ JsonParse(text).facts.tag = "array"
       /\ \E k \in (region[1].to + 1)..Len(oracle.text) :
            oracle.text[k] \in {"LB", "RB"}) =>
        (pc # "extractRaised" /\ extracted = JsonParse(text))

(***************************************************************************)
(* Properties of the memory index and the retriever (SpecRead)             *)
(***************************************************************************)

UserCategories == MemoryCategory \cup {r.category : r \in Rows(memoryFacts)}

\* C6: every read made for user U (getMemoryFacts, getMemoryFactsByCategory,
\* getMemorySummaries, getMemoryEmbeddings, getEmbeddingCount, and the lists
\* findRelevantMemories returns for U) contains only rows whose userId is U.
C6_ReadsScopedToUser ==
  /\ \A u \in Users :
       /\ \A r \in Rows(getMemoryFacts(u)) : r.userId = u
       /\ \A c \in UserCategories :
            \A r \in Rows(getMemoryFactsByCategory(u, c)) : r.userId = u
       /\ \A r \in Rows(getMemorySummaries(u)) : r.userId = u
       /\ \A r \in Rows(getMemoryEmbeddings(u)) : r.userId = u
       /\ getEmbeddingCount(u) =
            Cardinality({k \in 1..Len(memoryEmbeddings) :
                           memoryEmbeddings[k].userId = u})
  /\ \A r \in Rows(result.facts) : r.userId = result.userId
  /\ \A r \in Rows(result.summaries) : r.userId = result.userId
  /\ \A r \in Rows(result.embeddings) : r.userId = result.userId

C6_Witness ==
  /\ ~result.raised
  /\ result.facts # <<>>
  /\ \E r \in Rows(memoryFacts) : r.userId # result.userId

\* C7: an update or delete of a fact requested on behalf of user A never
\* modifies, re-assigns or removes a Fact row owned by another user.
C7_WritesScopedToRequester ==
  [][lastOp'.op \in {"update", "delete"} =>
       \A k \in 1..Len(memoryFacts) :
         memoryFacts[k].userId # lastOp'.requester =>
           memoryFacts[k] \in Rows(memoryFacts')]_vars

\* C8 as claimed: for every limit value the result has at most `limit`
\* facts, at most `limit` embeddings and at most ceil(limit/2) summaries.
C8_BoundedForEveryLimit ==
  ~result.raised =>
    /\ Len(result.facts) <= result.limit
    /\ Len(result.embeddings) <= result.limit
    /\ 2 * Len(result.summaries) <= result.limit + 1

\* C8, amended: for every limit >= 0 the result has at most `limit` facts,
\* at most `limit` embeddings and at most ceil(limit/2) summaries.
C8_BoundedForNonNegativeLimit ==
  (~result.raised /\ result.limit >= 0) =>
    /\ Len(result.facts) <= result.limit
    /\ Len(result.embeddings) <= result.limit
    /\ 2 * Len(result.summaries) <= result.limit + 1

C8_Witness ==
  /\ ~result.raised
  /\ result.limit >= 1
  /\ Len(result.readFacts) > result.limit
  /\ Len(result.facts) = result.limit

\* C9: if exactly one of the three reads fails, findRelevantMemories still
\* returns, with that source empty and the other two ranked as usual.
C9_ReadsFailIndependently ==
  Cardinality(result.failed) = 1 =>
    LET ranked == RankAll(getMemoryFacts(result.userId),
                          getMemorySummaries(result.userId),
                          getMemoryEmbeddings(result.userId),
                          result.query, result.limit)
    IN  /\ ~result.raised
        /\ result.facts =
             IF "facts" \in result.failed THEN <<>> ELSE ranked.facts
        /\ result.summaries =
             IF "summaries" \in result.failed THEN <<>> ELSE ranked.summaries
        /\ result.embeddings =
             IF "embeddings" \in result.failed THEN <<>> ELSE ranked.embeddings

\* The embedding lists that differ from `embeddings` by one row removed, by
\* all rows removed, or by one row added.
EmbeddingVariants(embeddings, userId) ==
  {<<>>}
  \cup {SelectSeq(embeddings, LAMBDA r : r.id # gone.id) : gone \in Rows(embeddings)}
  \cup {Append(embeddings,
               [id |-> nextId, userId |-> userId, content |-> input.content,
                embedding |-> simpleEmbedding(input.content),
                sourceType |-> input.sourceType, sourceId |-> input.sourceId]) :
          input \in EmbeddingInputs}

\* C10: the facts findRelevantMemories returns depend only on the user's
\* Fact rows and the query (Embedding rows added or removed never change
\* them), and a user with at most `limit` facts gets all of them.
C10_FactsNeedNoEmbedding ==
  (~result.raised /\ result.userId \in Users) =>
    /\ \A e \in EmbeddingVariants(result.readEmbeddings, result.userId) :
         RankAll(result.readFacts, result.readSummaries, e,
                 result.query, result.limit).facts = result.facts
    /\ Cardinality({k \in 1..Len(memoryFacts) :
                      memoryFacts[k].userId = result.userId}) <= result.limit
         => \A r \in Rows(memoryFacts) :
              r.userId = result.userId =>
                \E k \in 1..Len(result.facts) : result.facts[k] = r

C10_Witness ==
  /\ ~result.raised
  /\ result.userId \in Users
  /\ result.readEmbeddings = <<>>
  /\ Len(result.facts) = 2

\* `returned` is a top-K selection of `source` under Score: a duplicate-free
\* sub-list in non-increasing score order, no item left out scores higher
\* than one returned, and equal scores keep the order they have in `source`.
IsTopK(returned, source, Score(_)) ==
  /\ \A i \in 1..Len(returned) : \E k \in 1..Len(source) : source[k] = returned[i]
  /\ \A i, j \in 1..Len(returned) :
       i < j =>
         /\ returned[i] # returned[j]
         /\ ~ScoreLess(Score(returned[i]), Score(returned[j]))
         /\ ScoreEqual(Score(returned[i]), Score(returned[j])) =>
              PositionIn(returned[i], source) < PositionIn(returned[j], source)
  /\ \A i \in 1..Len(returned), k \in 1..Len(source) :
       (\A j \in 1..Len(returned) : returned[j] # source[k]) =>
         ~ScoreLess(Score(returned[i]), Score(source[k]))

\* C24: each of the three lists findRelevantMemories returns is a top-K
\* selection of what the store returned for that source: non-increasing
\* scores, nothing left out that scores higher, no duplicate, and equal
\* scores in store order.
C24_ListsAreTopK ==
  (~result.raised /\ result.userId \in Users) =>
    LET q == simpleEmbedding(result.query)
        FactScore(f) == cosineSimilarity(q, simpleEmbedding(KeyValueText(f.key, f.value)))
        SummaryScore(x) == cosineSimilarity(q, simpleEmbedding(x.content))
        EmbeddingScore(e) == cosineSimilarity(q, e.embedding)
    IN  /\ IsTopK(result.facts, result.readFacts, FactScore)
        /\ IsTopK(result.summaries, result.readSummaries, SummaryScore)
        /\ IsTopK(result.embeddings, result.readEmbeddings, EmbeddingScore)

C24_Witness ==
  /\ ~result.raised
  /\ result.userId \in Users
  /\ Len(result.readFacts) = 2
  /\ Len(result.facts) = 2
  /\ result.facts = result.readFacts
  /\ result.facts[1].key = result.facts[2].key
  /\ cosineSimilarity(simpleEmbedding(result.query),
                      simpleEmbedding(KeyValueText(result.facts[1].key,
                                                   result.facts[1].value))).num > 0

\* The rows of a table that belong to other users than u, in table order.
RowsOfOthers(table, u) == SelectSeq(table, LAMBDA r : r.userId # u)

\* C22: clearMemoryFacts(U) removes every Fact row of U and leaves every
\* Fact row of other users and all Summary and Embedding rows unchanged;
\* clearMemorySummaries(U) and clearMemoryEmbeddings(U) do the same for
\* their own table.
C22_ClearScopedToUserAndTable ==
  [][/\ lastOp'.op = "clearFacts" =>
          /\ memoryFacts' = RowsOfOthers(memoryFacts', lastOp'.requester)
          /\ RowsOfOthers(memoryFacts, lastOp'.requester) = memoryFacts'
          /\ memorySummaries' = memorySummaries
          /\ memoryEmbeddings' = memoryEmbeddings
     /\ lastOp'.op = "clearSummaries" =>
          /\ memorySummaries' = RowsOfOthers(memorySummaries', lastOp'.requester)
          /\ RowsOfOthers(memorySummaries, lastOp'.requester) = memorySummaries'
          /\ memoryFacts' = memoryFacts
          /\ memoryEmbeddings' = memoryEmbeddings
     /\ lastOp'.op = "clearEmbeddings" =>
          /\ memoryEmbeddings' = RowsOfOthers(memoryEmbeddings', lastOp'.requester)
          /\ RowsOfOthers(memoryEmbeddings, lastOp'.requester) = memoryEmbeddings'
          /\ memoryFacts' = memoryFacts
          /\ memorySummaries' = memorySummaries]_vars

C22_Witness ==
  /\ lastOp.op = "clearFacts"
  /\ nextId = 3
  /\ Len(memoryFacts) = 1
  /\ memoryFacts[1].userId # lastOp.requester
  /\ memorySummaries = <<>>
  /\ memoryEmbeddings = <<>>

\* C21: storing extracted facts is append-only.  Every successful insert
\* adds one row with an id of its own, also when the user already has a
\* fact with that key; no step modifies or removes an existing row; so each
\* user's fact count is the number of successful inserts made for that user.
C21_StoreIsAppendOnly ==
  /\ [](/\ \A u \in Users :
            Cardinality({k \in 1..Len(memoryFacts) : memoryFacts[k].userId = u})
              = Cardinality({k \in 1..Len(attempts) :
                               attempts[k].ok /\ attempts[k].userId = u})
        /\ \A i, j \in 1..Len(memoryFacts) :
             i # j => memoryFacts[i].id # memoryFacts[j].id)
  /\ [][/\ Len(memoryFacts') >= Len(memoryFacts)
        /\ SubSeq(memoryFacts', 1, Len(memoryFacts)) = memoryFacts]_vars

C21_Witness ==
  /\ pc = "returned"
  /\ Len(memoryFacts) = 2
  /\ memoryFacts[1].userId = memoryFacts[2].userId
  /\ memoryFacts[1].key = memoryFacts[2].key
  /\ memoryFacts[1].category = memoryFacts[2].category
  /\ \E i, j \in 1..Len(attempts) :
       /\ i < j
       /\ attempts[i].index = 1 /\ attempts[i].ok
       /\ attempts[j].index = 1 /\ attempts[j].ok

\* C23: extraction always terminates: once the oracle has been called,
\* extractMemoryFromConversation eventually returns, also when the oracle
\* call never completes.
C23_ExtractionTerminates == (pc = "awaiting") ~> (pc = "extracted")

(***************************************************************************)
(* Google Drive access (drive.ts)                                          *)
(*                                                                         *)
(* A time is a number of clock ticks; expires_at is the time it denotes.   *)
(* An access token is the string "token": which token it is plays no part. *)
(* items[0] of the connector's answer is a record whose settings are       *)
(* absent or hold access_token, oauth_token (the token under               *)
(* oauth.credentials) and expires_at, each of them optional.               *)
(***************************************************************************)
MaxNow == 3
MaxFolders == 3

AccessTokens == {None, Some("token")}

ConnectorItems ==
  {[settings |-> None]} \cup
  {[settings |-> Some([access_token |-> a, oauth_token |-> o,
                       expires_at |-> e])] :
     a \in AccessTokens, o \in AccessTokens, e \in {None} \cup {Some(t) : t \in 1..MaxNow}}

\* How the fetch of the connection settings ends: it rejects, or it answers
\* with items[0], which is undefined when there is no item.
ConnectorReplies ==
  {[ok |-> FALSE, item |-> None]} \cup
  {[ok |-> TRUE, item |-> i] : i \in {None} \cup {Some(x) : x \in ConnectorItems}}

\* The test that guards the cached token, with the settings cs at time t:
\* "hit" when it passes, "miss" when it does not, "raise" when reading
\* settings.expires_at of an item without settings throws.
CacheCheck_IgnoreExpiry(cs, t) ==
  IF cs = None THEN "miss"
  ELSE IF cs[1].settings = None THEN "raise"
  ELSE "hit"

CacheCheck(cs, t) ==
  IF cs = None THEN "miss"
  ELSE IF cs[1].settings = None THEN "raise"
  ELSE IF cs[1].settings[1].expires_at = None THEN "miss"
  ELSE IF cs[1].settings[1].expires_at[1] > t THEN "hit"
  ELSE "miss"

\* The access token read out of freshly fetched settings cs: None when the
\* read throws or finds no token ("Google Drive not connected").
FetchedToken(cs) ==
  IF cs = None THEN None
  ELSE IF cs[1].settings = None THEN None
  ELSE IF cs[1].settings[1].access_token # None
       THEN cs[1].settings[1].access_token
  ELSE cs[1].settings[1].oauth_token

DriveRaised(fn) ==
  [fn |-> fn, at |-> "raised", via |-> "none", token |-> None, folder |-> 0]

\* After getAccessToken handed over a token: getAccessToken itself returns;
\* ensureChronoMindFolder builds the client and sends files.list.
GotToken(fn, via, token) ==
  [fn |-> fn, at |-> IF fn = "getAccessToken" THEN "returned" ELSE "list",
   via |-> via, token |-> token, folder |-> 0]

\* Caller c calls fn, getAccessToken or ensureChronoMindFolder: the code of
\* getAccessToken up to its await.  xReplitToken tells whether the
\* environment holds REPL_IDENTITY or WEB_REPL_RENEWAL.
DriveCallBegin(c, fn, xReplitToken) ==
  /\ driveCalls[c].at \in {"idle", "returned", "raised"}
  /\ LET check == CacheCheck(connectionSettings, now)
     IN  driveCalls' = [driveCalls EXCEPT ![c] =
           IF check = "hit"
             THEN GotToken(fn, "cache",
                           connectionSettings[1].settings[1].access_token)
           ELSE IF check = "raise" \/ ~xReplitToken THEN DriveRaised(fn)
           ELSE [fn |-> fn, at |-> "fetch", via |-> "none", token |-> None,
                 folder |-> 0]]
  /\ UNCHANGED <<now, connectionSettings, driveFolders>>
  /\ UNCHANGED <<storeVars, writeVars, readVars, fnVars, keyVars, clientVars>>

\* The fetch of caller c settles with reply: the rest of getAccessToken.
ConnectorAnswers(c, reply) ==
  /\ driveCalls[c].at = "fetch"
  /\ connectionSettings' = IF reply.ok THEN reply.item ELSE connectionSettings
  /\ LET fn == driveCalls[c].fn
         token == IF reply.ok THEN FetchedToken(reply.item) ELSE None
     IN  driveCalls' = [driveCalls EXCEPT ![c] =
           IF token = None THEN DriveRaised(fn)
           ELSE GotToken(fn, "fetch", token)]
  /\ UNCHANGED <<now, driveFolders>>
  /\ UNCHANGED <<storeVars, writeVars, readVars, fnVars, keyVars, clientVars>>

\* files.list of caller c settles: it fails, as it must without an access
\* token, or it answers with the folders there are now, first being
\* files[0] (0 when there is none).  Drive documents no order for the
\* answer.
FilesListed(c, ok, first) ==
  /\ driveCalls[c].at = "list"
  /\ ok => driveCalls[c].token # None
  /\ IF ok /\ driveFolders # {} THEN first \in driveFolders ELSE first = 0
  /\ driveCalls' = [driveCalls EXCEPT ![c] =
       IF ~ok THEN DriveRaised("ensureChronoMindFolder")
       ELSE IF first # 0 THEN [@ EXCEPT !.at = "returned", !.folder = first]
       ELSE [@ EXCEPT !.at = "create"]]
  /\ UNCHANGED <<now, connectionSettings, driveFolders>>
  /\ UNCHANGED <<storeVars, writeVars, readVars, fnVars, keyVars, clientVars>>

\* files.create of caller c settles: it fails, or Drive makes a new folder.
FolderCreated(c, ok) ==
  /\ driveCalls[c].at = "create"
  /\ ok => driveCalls[c].token # None
  /\ Cardinality(driveFolders) < MaxFolders
  /\ LET id == Cardinality(driveFolders) + 1
     IN  IF ok
         THEN /\ driveFolders' = driveFolders \cup {id}
              /\ driveCalls' = [driveCalls EXCEPT ![c] =
                   [@ EXCEPT !.at = "returned", !.folder = id]]
         ELSE /\ driveFolders' = driveFolders
              /\ driveCalls' = [driveCalls EXCEPT ![c] =
                   DriveRaised("ensureChronoMindFolder")]
  /\ UNCHANGED <<now, connectionSettings>>
  /\ UNCHANGED <<storeVars, writeVars, readVars, fnVars, keyVars, clientVars>>

\* Time passes.
Tick ==
  /\ now < MaxNow
  /\ now' = now + 1
  /\ UNCHANGED <<connectionSettings, driveFolders, driveCalls>>
  /\ UNCHANGED <<storeVars, writeVars, readVars, fnVars, keyVars, clientVars>>

InitDrive == InitWrite

NextDrive ==
  \/ \E c \in Callers, xReplitToken \in BOOLEAN :
       \E fn \in {"getAccessToken", "ensureChronoMindFolder"} :
         DriveCallBegin(c, fn, xReplitToken)
  \/ \E c \in Callers, reply \in ConnectorReplies : ConnectorAnswers(c, reply)
  \/ \E c \in Callers, ok \in BOOLEAN, first \in 0..MaxFolders :
       FilesListed(c, ok, first)
  \/ \E c \in Callers, ok \in BOOLEAN : FolderCreated(c, ok)
  \/ Tick

\* Overlapping getAccessToken and ensureChronoMindFolder calls of two
\* callers, while time passes.
SpecDrive == InitDrive /\ [][NextDrive]_vars

\* The settings in the cache record an expiry that lies strictly in the
\* future.
CacheFresh ==
  /\ connectionSettings # None
  /\ connectionSettings[1].settings # None
  /\ connectionSettings[1].settings[1].expires_at # None
  /\ connectionSettings[1].settings[1].expires_at[1] > now

\* Caller c begins a call in this step.
Begins(c) ==
  /\ driveCalls[c].at \in {"idle", "returned", "raised"}
  /\ driveCalls'[c] # driveCalls[c]

\* C26: getAccessToken never returns an expired token from its cache: a call
\* is served from the cache only while the recorded expires_at is strictly
\* in the future, and then with the cached access_token; a call that begins
\* when the expiry has passed or none is recorded waits for a refetch or
\* fails, and what it returns after the wait comes from the refetch.
C26_NoExpiredTokenFromCache ==
  [][\A c \in Callers :
       /\ (Begins(c) /\ driveCalls'[c].via = "cache") =>
            /\ CacheFresh
            /\ driveCalls'[c].token =
                 connectionSettings[1].settings[1].access_token
       /\ (Begins(c) /\ ~CacheFresh) => driveCalls'[c].at \in {"fetch", "raised"}
       /\ (driveCalls[c].at = "fetch" /\ driveCalls'[c].at \notin {"fetch", "raised"}) =>
            /\ driveCalls'[c].via = "fetch"
            /\ driveCalls'[c].token = FetchedToken(connectionSettings')]_vars

\* One call was served from the cache, and another one, after time has
\* passed, by a refetch.
C26_Witness ==
  /\ now > 0
  /\ \E c, d \in Callers :
       /\ driveCalls[c].fn = "getAccessToken"
       /\ driveCalls[c].at = "returned"
       /\ driveCalls[c].via = "cache"
       /\ driveCalls[d].fn = "getAccessToken"
       /\ driveCalls[d].at = "returned"
       /\ driveCalls[d].via = "fetch"
       /\ ~CacheFresh

\* C27: after any number of ensureChronoMindFolder calls, overlapping ones
\* included, there is at most one ChronoMindMemory folder and every call
\* returned the id of that folder.
C27_OneFolderForAllCalls ==
  /\ Cardinality(driveFolders) <= 1
  /\ \A c \in Callers :
       (driveCalls[c].fn = "ensureChronoMindFolder"
          /\ driveCalls[c].at = "returned") =>
         driveFolders = {driveCalls[c].folder}

(***************************************************************************)
(* Provider keys (storage.ts, schema.ts)                                   *)
(*                                                                         *)
(* provider_keys is the set of its rows; createdAt and updatedAt are left  *)
(* out.  A call of saveProviderKey is a record: at is where the call       *)
(* stands, last the statement that ran last, existing the id of the row    *)
(* the select found.                                                       *)
(***************************************************************************)
\* The InsertProviderKey values saved in the model; isActive is optional.
SaveKeys ==
  { [userId |-> "u1", provider |-> "openai", encryptedKey |-> "k1",
     isActive |-> None],
    [userId |-> "u1", provider |-> "openai", encryptedKey |-> "k2",
     isActive |-> Some(FALSE)],
    [userId |-> "u1", provider |-> "claude", encryptedKey |-> "k1",
     isActive |-> Some(TRUE)],
    [userId |-> "u2", provider |-> "openai", encryptedKey |-> "k1",
     isActive |-> None] }

\* The rows of user userId for provider.
KeyRows(rows, userId, provider) ==
  {r \in rows : r.userId = userId /\ r.provider = provider}

\* unique().on(table.userId, table.provider): the insert of key into rows is
\* refused.
UniqueViolation_NoConstraint(rows, key) == FALSE

UniqueViolation(rows, key) == KeyRows(rows, key.userId, key.provider) # {}

SaveRaised(key, existing, last) ==
  [at |-> "raised", key |-> key, existing |-> existing, last |-> last]

\* Caller c calls saveProviderKey(key): the select of getProviderKey is sent.
SaveBegin(c, key) ==
  /\ saveCalls[c].at \in {"idle", "returned", "raised"}
  /\ saveCalls' = [saveCalls EXCEPT ![c] =
       [at |-> "select", key |-> Some(key), existing |-> None,
        last |-> "none"]]
  /\ UNCHANGED providerKeys
  /\ UNCHANGED <<storeVars, writeVars, readVars, fnVars, driveVars, clientVars>>

\* The select of caller c settles: it fails, or it answers with the rows of
\* the pair there are now, row being the first of them (None when there is
\* none); saveProviderKey goes on to its update or to its insert.
KeySelected(c, dbOk, row) ==
  /\ saveCalls[c].at = "select"
  /\ LET key == saveCalls[c].key[1]
         found == KeyRows(providerKeys, key.userId, key.provider)
     IN  /\ IF dbOk /\ found # {} THEN row # None /\ row[1] \in found
            ELSE row = None
         /\ saveCalls' = [saveCalls EXCEPT ![c] =
              IF ~dbOk THEN SaveRaised(Some(key), None, "select")
              ELSE IF row # None
                THEN [at |-> "update", key |-> Some(key),
                      existing |-> Some(row[1].id), last |-> "select"]
              ELSE [at |-> "insert", key |-> Some(key), existing |-> None,
                    last |-> "select"]]
  /\ UNCHANGED providerKeys
  /\ UNCHANGED <<storeVars, writeVars, readVars, fnVars, driveVars, clientVars>>

\* The update of caller c settles: set() skips a field that is undefined.
KeyUpdated(c, dbOk) ==
  /\ saveCalls[c].at = "update"
  /\ LET key == saveCalls[c].key[1]
         id == saveCalls[c].existing[1]
         updated(r) ==
           [r EXCEPT !.encryptedKey = key.encryptedKey,
                     !.isActive = IF key.isActive = None THEN r.isActive
                                  ELSE key.isActive[1]]
     IN  IF dbOk
         THEN /\ providerKeys' =
                   {IF r.id = id THEN updated(r) ELSE r : r \in providerKeys}
              /\ saveCalls' = [saveCalls EXCEPT ![c] =
                   [@ EXCEPT !.at = "returned", !.last = "update"]]
         ELSE /\ providerKeys' = providerKeys
              /\ saveCalls' = [saveCalls EXCEPT ![c] =
                   SaveRaised(Some(key), Some(id), "update")]
  /\ UNCHANGED <<storeVars, writeVars, readVars, fnVars, driveVars, clientVars>>

\* The insert of caller c settles: isActive defaults to true.
KeyInserted(c, dbOk) ==
  /\ saveCalls[c].at = "insert"
  /\ LET key == saveCalls[c].key[1]
         row == [id |-> Cardinality(providerKeys) + 1, userId |-> key.userId,
                 provider |-> key.provider,
                 encryptedKey |-> key.encryptedKey,
                 isActive |-> IF key.isActive = None THEN TRUE
                              ELSE key.isActive[1]]
     IN  IF dbOk /\ ~UniqueViolation(providerKeys, key)
         THEN /\ providerKeys' = providerKeys \cup {row}
              /\ saveCalls' = [saveCalls EXCEPT ![c] =
                   [@ EXCEPT !.at = "returned", !.last = "insert"]]
         ELSE /\ providerKeys' = providerKeys
              /\ saveCalls' = [saveCalls EXCEPT ![c] =
                   SaveRaised(Some(key), None, "insert")]
  /\ UNCHANGED <<storeVars, writeVars, readVars, fnVars, driveVars, clientVars>>

InitKeys == InitWrite

NextKeys ==
  \/ \E c \in Callers, key \in SaveKeys : SaveBegin(c, key)
  \/ \E c \in Callers, dbOk \in BOOLEAN :
       \E row \in {None} \cup {Some(r) : r \in providerKeys} :
         KeySelected(c, dbOk, row)
  \/ \E c \in Callers, dbOk \in BOOLEAN : KeyUpdated(c, dbOk)
  \/ \E c \in Callers, dbOk \in BOOLEAN : KeyInserted(c, dbOk)

\* Overlapping saveProviderKey calls of two callers.
SpecKeys == InitKeys /\ [][NextKeys]_vars

\* Caller c has a call for the pair (userId, provider) under way or done.
SavesFor(c, userId, provider) ==
  /\ saveCalls[c].key # None
  /\ saveCalls[c].key[1].userId = userId
  /\ saveCalls[c].key[1].provider = provider

MaxLogins == 1
MaxChatMsgs == 3

ChatInputs == {<<>>, <<32>>, <<32, 97>>}

RECURSIVE trimStart(_)
trimStart(s) ==
  IF s # <<>> /\ IsSpaceChar(Head(s)) THEN trimStart(Tail(s)) ELSE s

\* String.prototype.trim
trim(s) == Reverse(trimStart(Reverse(trimStart(s))))

\* AppContent renders AuthenticatedLayout, and nothing has torn the React
\* tree down.
PageShown == ~isLoading /\ firebaseUser /\ mounted

\* providers.find(p => p.provider === activeProvider)?.hasKey
hasActiveKey ==
  activeProvider \in DOMAIN providers /\ providers[activeProvider]

\* The first test of handleSend: nothing is sent.
SendIgnored_WhileBlankOnly(trimmed, streaming) == trimmed = <<>>

SendIgnored(trimmed, streaming) == trimmed = <<>> \/ streaming

HasUndefined(msgs) == \E i \in 1..Len(msgs) : msgs[i] = "undefined"

NotTemp(m) == m # "temp"

\* The onAuthChange callback runs with a user (signedIn) or with null, up to
\* its first await.
AuthChanged(signedIn) ==
  /\ mounted
  /\ firebaseUser' = signedIn
  /\ IF signedIn
     THEN /\ loginsPending < MaxLogins
          /\ loginsPending' = loginsPending + 1
          /\ UNCHANGED isLoading
     ELSE /\ isLoading' = FALSE
          /\ UNCHANGED loginsPending
  /\ UNCHANGED <<savedKeys, saveKeyPending, providers, activeProvider,
                 chatInput, isStreaming, chatMessages, chatRequests, mounted,
                 lastSend>>
  /\ UNCHANGED <<storeVars, writeVars, readVars, fnVars, driveVars, keyVars>>

\* POST /api/auth/login settles, the rest of the callback: on an answer that
\* lists the user's provider keys the store gets one entry per key.
LoginSettled(ok, withProviders) ==
  /\ loginsPending > 0
  /\ loginsPending' = loginsPending - 1
  /\ providers' = IF ok /\ withProviders THEN [p \in savedKeys |-> TRUE]
                  ELSE providers
  /\ isLoading' = FALSE
  /\ UNCHANGED <<firebaseUser, savedKeys, saveKeyPending, activeProvider,
                 chatInput, isStreaming, chatMessages, chatRequests, mounted,
                 lastSend>>
  /\ UNCHANGED <<storeVars, writeVars, readVars, fnVars, driveVars, keyVars>>

\* ProvidersPage: saveKeyMutation.mutate for provider p.
SaveKeyStart(p) ==
  /\ PageShown
  /\ saveKeyPending = None
  /\ saveKeyPending' = Some(p)
  /\ UNCHANGED <<isLoading, firebaseUser, loginsPending, savedKeys, providers,
                 activeProvider, chatInput, isStreaming, chatMessages,
                 chatRequests, mounted, lastSend>>
  /\ UNCHANGED <<storeVars, writeVars, readVars, fnVars, driveVars, keyVars>>

\* POST /api/providers settles; onSuccess invalidates the /api/providers
\* query of the page and closes the dialog.
SaveKeySettled(ok) ==
  /\ saveKeyPending # None
  /\ savedKeys' = IF ok THEN savedKeys \cup {saveKeyPending[1]} ELSE savedKeys
  /\ saveKeyPending' = None
  /\ UNCHANGED <<isLoading, firebaseUser, loginsPending, providers,
                 activeProvider, chatInput, isStreaming, chatMessages,
                 chatRequests, mounted, lastSend>>
  /\ UNCHANGED <<storeVars, writeVars, readVars, fnVars, driveVars, keyVars>>

\* setActiveProvider(p), from either page.
SetActiveProvider(p) ==
  /\ PageShown
  /\ activeProvider' = p
  /\ UNCHANGED <<isLoading, firebaseUser, loginsPending, savedKeys,
                 saveKeyPending, providers, chatInput, isStreaming,
                 chatMessages, chatRequests, mounted, lastSend>>
  /\ UNCHANGED <<storeVars, writeVars, readVars, fnVars, driveVars, keyVars>>

\* The user edits the text area.
TypeInput(text) ==
  /\ PageShown
  /\ chatInput' = text
  /\ UNCHANGED <<isLoading, firebaseUser, loginsPending, savedKeys,
                 saveKeyPending, providers, activeProvider, isStreaming,
                 chatMessages, chatRequests, mounted, lastSend>>
  /\ UNCHANGED <<storeVars, writeVars, readVars, fnVars, driveVars, keyVars>>

\* handleSend, with sendMessage.mutate and its onMutate.
handleSend ==
  /\ PageShown
  /\ Len(chatMessages) < MaxChatMsgs
  /\ LET trimmed == trim(chatInput)
     IN  IF SendIgnored(trimmed, isStreaming)
         THEN /\ lastSend' = [outcome |-> "ignored", provider |-> activeProvider]
              /\ UNCHANGED <<chatInput, isStreaming, chatMessages, chatRequests>>
         ELSE IF ~hasActiveKey
         THEN /\ lastSend' = [outcome |-> "nokey", provider |-> activeProvider]
              /\ UNCHANGED <<chatInput, isStreaming, chatMessages, chatRequests>>
         ELSE /\ lastSend' = [outcome |-> "sent", provider |-> activeProvider]
              /\ chatInput' = <<>>
              /\ chatMessages' = Append(chatMessages, "temp")
              /\ isStreaming' = TRUE
              /\ chatRequests' = chatRequests + 1
  /\ UNCHANGED <<isLoading, firebaseUser, loginsPending, savedKeys,
                 saveKeyPending, providers, activeProvider, mounted>>
  /\ UNCHANGED <<storeVars, writeVars, readVars, fnVars, driveVars, keyVars>>

\* POST /api/chat settles: onSuccess or onError, then onSettled.  A callback
\* that throws (m.id of an undefined entry) keeps the later ones from
\* running.  A list with an undefined entry makes the next render of
\* ChatPage throw, which unmounts the tree.
SendSettled(ok) ==
  /\ chatRequests > 0
  /\ chatRequests' = chatRequests - 1
  /\ IF HasUndefined(chatMessages)
     THEN UNCHANGED <<chatMessages, isStreaming>>
     ELSE /\ chatMessages' =
               IF ok
               THEN SelectSeq(chatMessages, NotTemp)
                      \o <<IF chatMessages = <<>> THEN "undefined"
                           ELSE chatMessages[Len(chatMessages)]>>
                      \o <<"saved">>
               ELSE SelectSeq(chatMessages, NotTemp)
          /\ isStreaming' = FALSE
  /\ mounted' = (mounted /\ ~HasUndefined(chatMessages'))
  /\ lastSend' = IF lastSend.outcome = "sent"
                 THEN [lastSend EXCEPT !.outcome =
                         IF ok THEN "answered" ELSE "failed"]
                 ELSE lastSend
  /\ UNCHANGED <<isLoading, firebaseUser, loginsPending, savedKeys,
                 saveKeyPending, providers, activeProvider, chatInput>>
  /\ UNCHANGED <<storeVars, writeVars, readVars, fnVars, driveVars, keyVars>>

\* The /api/messages query delivers n messages: setMessages(messagesData).
MessagesLoaded(n) ==
  /\ PageShown
  /\ chatMessages' = [i \in 1..n |-> "saved"]
  /\ UNCHANGED <<isLoading, firebaseUser, loginsPending, savedKeys,
                 saveKeyPending, providers, activeProvider, chatInput,
                 isStreaming, chatRequests, mounted, lastSend>>
  /\ UNCHANGED <<storeVars, writeVars, readVars, fnVars, driveVars, keyVars>>

handleNewChat ==
  /\ PageShown
  /\ chatMessages' = <<>>
  /\ UNCHANGED <<isLoading, firebaseUser, loginsPending, savedKeys,
                 saveKeyPending, providers, activeProvider, chatInput,
                 isStreaming, chatRequests, mounted, lastSend>>
  /\ UNCHANGED <<storeVars, writeVars, readVars, fnVars, driveVars, keyVars>>

InitClient == InitWrite

NextClient ==
  \/ \E signedIn \in BOOLEAN : AuthChanged(signedIn)
  \/ \E ok \in BOOLEAN, withProviders \in BOOLEAN :
       LoginSettled(ok, withProviders)
  \/ \E p \in ProviderIds : SaveKeyStart(p)
  \/ \E ok \in BOOLEAN : SaveKeySettled(ok)
  \/ \E p \in ProviderIds : SetActiveProvider(p)
  \/ \E text \in ChatInputs : TypeInput(text)
  \/ handleSend
  \/ \E ok \in BOOLEAN : SendSettled(ok)
  \/ \E n \in 0..(MaxChatMsgs - 1) : MessagesLoaded(n)
  \/ handleNewChat

\* One browser session of one user.
SpecClient == InitClient /\ [][NextClient]_vars

\* C29: at most one chat request is outstanding: a request is issued only
\* by a handleSend with non-blank input while isStreaming is false,
\* isStreaming is true exactly while the request is outstanding, so it is
\* false again once the request has settled, with success or with failure.
C29_OneRequestAtATime ==
  /\ [](chatRequests <= 1 /\ (isStreaming <=> chatRequests = 1))
  /\ [][chatRequests' > chatRequests =>
          /\ trim(chatInput) # <<>>
          /\ ~isStreaming
          /\ isStreaming']_vars

\* A request has failed, the page is still up and a send is possible again.
C29_Witness ==
  /\ lastSend.outcome = "failed"
  /\ PageShown
  /\ ~isStreaming
  /\ chatRequests = 0
  /\ trim(chatInput) # <<>>
  /\ hasActiveKey

\* C30: once a key for a provider has been saved on the Providers page,
\* handleSend with that provider active is not turned down for want of a
\* key.
C30_SavedKeyIsSeenByChat ==
  [][(lastSend' # lastSend /\ lastSend'.outcome = "nokey") =>
       lastSend'.provider \notin savedKeys]_vars

====
